---- MODULE Spec2Model ----
(***************************************************************************)
(* Model of the stateful cores of codingkabs/Hand-Tracker:                 *)
(*   feature_6_exercise_tracker.py  ExerciseTracker and its main loop      *)
(*   feature_1_sign_language.py     the frame loop of main                 *)
(*   feature_3_gesture_game.py      detect_gesture and the game loop       *)
(*   feature_7_air_piano.py         AirPiano.check_key_press               *)
(*   feature_5_virtual_drawing.py   VirtualCanvas and the frame loop       *)
(*   feature_8_pose_analyzer.py     PoseAnalyzer.analyze_posture           *)
(*   feature_9_volume_control.py    VolumeControl and the frame loop       *)
(*   main.py                        the angle the launcher displays        *)
(*   base.py, pose_base.py          is_finger_up, count, get_distance      *)
(*                                                                         *)
(* Numbers.  Python's true division makes averages of pixel rows floats.   *)
(* They are modelled as exact rationals <<n, d>> in lowest terms (d > 0),  *)
(* so that the mean of the captured rows is the mean, not a rounded int.   *)
(* Time.  time.time() is read in ticks of half a second, the unit of every  *)
(* delay the loops compare against (0.5 s, 1.0 s, 3.0 s).  The code only    *)
(* ever subtracts a stored time from the present one, so a stored time is   *)
(* kept as its age, the ticks elapsed since that time: storing the present  *)
(* time stores 0, a frame dt ticks later adds dt to every stored time, and  *)
(* `current_time - stored` is the age itself.  Ages stop growing at a cap   *)
(* that is at least every delay they are compared with.                     *)
(***************************************************************************)
EXTENDS Integers, Sequences, FiniteSets, TLC

VARIABLES
    exercise_tracker,  \* the ExerciseTracker object of feature 6
    api,               \* the last ExerciseTracker call and what it returned
    ex,                \* the locals of feature 6's main loop
    ex_obs,            \* what the last frame of that loop was given and did
    gesture,           \* a hand handed to detect_gesture, and the label returned
    piano,             \* the pressed flag of each key of the AirPiano object
    piano_obs,         \* the last check_key_press call and what it returned
    sign,              \* the locals of feature 1's main loop
    sign_obs,          \* what the last frames of that loop were given and showed
    game,              \* the locals of feature 3's main loop
    game_obs,          \* what the last frame of that loop was given and did
    draw,              \* the VirtualCanvas fields and the locals of feature 5's main loop
    draw_obs,          \* what the last frames of that loop were given and drew
    calc,              \* a call of a pure function: its arguments and its result
    volume_control,    \* the VolumeControl object and the locals of feature 9's main loop
    volume_obs         \* what the last frames of that loop were given and did

vars == <<exercise_tracker, api, ex, ex_obs, gesture, piano, piano_obs,
          sign, sign_obs, game, game_obs, draw, draw_obs, calc,
          volume_control, volume_obs>>

\* ---------------------------------------------------------------- bounds
\* The most repetitions a run of direct ExerciseTracker calls counts.
MaxReps == 3
\* The age at which a stored time of the exercise feature stops growing.
MaxAge == 2
\* The most rows one capture window of the exercise loop records.
MaxCaptured == 2
\* The most repetitions a session of the exercise loop counts.
MaxLoopReps == 2
\* The highest value letter_count reaches in the sign-language loop.
MaxLetterCount == 6
\* The age at which a stored time of the game stops growing.
GameMaxAge == 6

\* Python's None where a number, a point or a landmark set is expected.
None == <<>>

\* The state of a feature that is not running.
GestureIdle == [lm |-> None, label |-> "none"]
PianoIdle == [i \in 1..12 |-> FALSE]
PianoObsIdle == [finger_tip |-> None, note |-> "None",
                 returned |-> [i \in 1..12 |-> 0]]

\* A local of a function that no statement has assigned yet.
Unbound == "<unbound>"

\* The locals of feature 3's main before the first frame.  The countdown's
\* start time is the epoch, older than any delay; result_start_time is not
\* assigned before the first round ends (-1).
GameStart ==
    [game_state |-> "MENU",
     player_score |-> 0,
     computer_score |-> 0,
     countdown_number |-> 3,
     countdown_start_time |-> GameMaxAge,
     player_choice |-> "None",
     computer_choice |-> "None",
     result_text |-> "None",
     result_start_time |-> -1,
     fullscreen |-> FALSE,
     running |-> TRUE,
     raised |-> FALSE]

GameIdle == [GameStart EXCEPT !.running = FALSE]

\* inside_start, inside_replay: a hand was detected in the last frame with
\* its index fingertip inside the START GAME / PLAY AGAIN rectangle;
\* acted: what started a round or a new game in the last frame.
GameObsStart == [inside_start |-> FALSE, inside_replay |-> FALSE, acted |-> "none"]

\* The locals of feature 1's main before the first frame.
SignStart ==
    [last_letter |-> "None",
     letter_count |-> 0,
     learning_mode |-> FALSE,
     last_button_state |-> FALSE,
     display_letter |-> Unbound,
     fullscreen |-> FALSE,
     running |-> TRUE,
     raised |-> FALSE]

SignIdle == [SignStart EXCEPT !.running = FALSE]

\* recent: detected_letter of the last frames, oldest first, at most five;
\* shown: the text the last frame drew as the letter; inside: a hand was
\* detected with its index fingertip on the learning-mode button, in the last
\* frame and (prev_inside) in the one before; key: the key the last frame read.
SignObsStart == [recent |-> <<>>, shown |-> "none", inside |-> FALSE,
                 prev_inside |-> FALSE, key |-> "none"]

\* The VirtualCanvas fields (last_point, drawing, color_index) and the locals
\* of feature 5's main before the first frame.
DrawStart ==
    [last_point |-> None,
     drawing |-> FALSE,
     color_index |-> 0,
     erase_mode |-> FALSE,
     last_finger_count |-> 0,
     last_fist_state |-> FALSE,
     fullscreen |-> FALSE,
     running |-> TRUE]

DrawIdle == [DrawStart EXCEPT !.running = FALSE]

\* op: what the last frame put on the canvas ("line" from a to b, "circle" at
\* b, "erase" at b, or "none"); active: the last frame showed a hand with the
\* index finger up and at most two fingers up outside erase mode, and
\* prev_active, prev_tip: so did the frame before, with its index fingertip.
\* count: the finger count of the last frame (-1 when it showed no hand);
\* hand_count: the finger count of the latest frame that showed a hand (-1
\* when none has), and prev_hand_count: that of the one before the last frame.
DrawObsStart == [op |-> "none", a |-> None, b |-> None, active |-> FALSE,
                 tip |-> None, prev_active |-> FALSE, prev_tip |-> None,
                 count |-> -1, hand_count |-> -1, prev_hand_count |-> -1]

\* No pure function has been called.
CalcIdle == [fn |-> "none"]

\* The VolumeControl fields (volume, last_pinch_dist, is_controlling) and the
\* locals of feature 9's main before the first frame.  A pinch distance is
\* kept as its square, the sum of two squared pixel differences, and
\* last_pinch_dist as that number over 1.
VolumeStart ==
    [volume |-> 50,
     last_pinch_dist |-> None,
     is_controlling |-> FALSE,
     fullscreen |-> FALSE,
     running |-> TRUE]

VolumeIdle == [VolumeStart EXCEPT !.running = FALSE]

\* called: the last frame called update_volume, and prev_called: so did the
\* frame before; prev_volume: volume before the last frame; hand: what the
\* latest frame that showed a hand was ("pinch" when it called update_volume,
\* "other" when it called reset, "none" when no frame has shown a hand) and
\* prev_hand: the same before the last frame.
VolumeObsStart == [called |-> FALSE, prev_called |-> FALSE, prev_volume |-> 50,
                   hand |-> "none", prev_hand |-> "none"]

\* ------------------------------------------------------------- arithmetic
Abs(x) == IF x < 0 THEN 0 - x ELSE x

RECURSIVE GCD(_, _)
GCD(a, b) == IF b = 0 THEN a ELSE GCD(b, a % b)

\* The rational n/d (n >= 0, d > 0) in lowest terms.
Rat(n, d) == LET g == GCD(n, d) IN <<n \div g, d \div g>>

Num(k) == <<k, 1>>

\* abs(a - b) of two rationals.
RatAbsDiff(a, b) == Rat(Abs(a[1] * b[2] - b[1] * a[2]), a[2] * b[2])

\* a < b of two rationals.
RatLess(a, b) == a[1] * b[2] < b[1] * a[2]

RatAdd(a, b) == Rat(a[1] * b[2] + b[1] * a[2], a[2] * b[2])

RECURSIVE RatSum(_)
RatSum(s) == IF s = <<>> THEN Num(0) ELSE RatAdd(Head(s), RatSum(Tail(s)))

\* The age of a stored time dt ticks later, for ages that stop at cap.
OlderCap(age, dt, cap) == IF age + dt > cap THEN cap ELSE age + dt

Older(age, dt) == OlderCap(age, dt, MaxAge)

\* a / k for a positive integer k.
RatDivInt(a, k) == Rat(a[1], a[2] * k)

\* -------------------------------------------------------- ExerciseTracker
ExerciseTracker_init ==
    [reps |-> 0,
     exercise_start_time |-> 0,
     rep_times |-> <<>>,
     position_1 |-> None,
     position_2 |-> None,
     current_state |-> "position_1",
     is_calibrated |-> FALSE]

set_position_1(self, key_point_y) == [self EXCEPT !.position_1 = key_point_y]

set_position_2(self, key_point_y) ==
    [self EXCEPT !.position_2 = key_point_y, !.is_calibrated = TRUE]

\* The early return of update: calibration is not complete.
update_not_ready_nocheck(self) == ~self.is_calibrated
update_not_ready(self) ==
    ~self.is_calibrated \/ self.position_1 = None \/ self.position_2 = None

\* The position current_y is classified as (a tie goes to position_2).
update_new_state_tie(p1, p2, current_y) ==
    IF ~RatLess(RatAbsDiff(current_y, p2), RatAbsDiff(current_y, p1))
    THEN "position_1" ELSE "position_2"
update_new_state(p1, p2, current_y) ==
    IF RatLess(RatAbsDiff(current_y, p1), RatAbsDiff(current_y, p2))
    THEN "position_1" ELSE "position_2"

\* The statements of update that count a repetition, stamped with the time
\* of the call.
count_rep_no_stamp(self) ==
    [self EXCEPT !.reps = @ + 1, !.current_state = "position_1"]
count_rep(self) ==
    [self EXCEPT !.reps = @ + 1,
                 !.rep_times = Append(@, 0),
                 !.current_state = "position_1"]

\* update(current_y): the object after the call, the
\* value returned (False when it raised), and whether the call raised (abs() of a number minus None
\* is a TypeError).
update(self, current_y) ==
    IF update_not_ready(self)
    THEN [self |-> self, ret |-> FALSE, raised |-> FALSE]
    ELSE IF self.position_1 = None \/ self.position_2 = None
    THEN [self |-> self, ret |-> FALSE, raised |-> TRUE]
    ELSE LET new_state ==
                 update_new_state(self.position_1, self.position_2, current_y)
         IN  IF self.current_state = "position_1" /\ new_state = "position_2"
             THEN [self |-> [self EXCEPT !.current_state = "position_2"],
                   ret |-> FALSE, raised |-> FALSE]
             ELSE IF self.current_state = "position_2" /\ new_state = "position_1"
             THEN [self |-> count_rep(self), ret |-> TRUE, raised |-> FALSE]
             ELSE [self |-> self, ret |-> FALSE, raised |-> FALSE]

\* The tracker dt ticks later: its stored times have aged.
TrackerLater(self, dt) ==
    [self EXCEPT !.exercise_start_time = Older(@, dt),
                 !.rep_times = [i \in 1..Len(@) |-> Older(@[i], dt)]]

\* reset() without the statement that empties rep_times.
reset_keep_times(self) ==
    [self EXCEPT !.reps = 0,
                 !.exercise_start_time = 0,
                 !.is_calibrated = FALSE,
                 !.position_1 = None,
                 !.position_2 = None,
                 !.current_state = "position_1"]
\* reset() without the statements that discard the calibration.
reset_keep_calibration(self) ==
    [self EXCEPT !.reps = 0,
                 !.rep_times = <<>>,
                 !.exercise_start_time = 0,
                 !.current_state = "position_1"]
reset(self) ==
    [self EXCEPT !.reps = 0,
                 !.rep_times = <<>>,
                 !.exercise_start_time = 0,
                 !.is_calibrated = FALSE,
                 !.position_1 = None,
                 !.position_2 = None,
                 !.current_state = "position_1"]

\* ------------------------------------------------ feature 6: the main loop
\* capture_duration = 1.0 s, and the other delays of the loop, in ticks.
capture_duration == 2
OneSecond == 2
HalfSecond == 1

\* The locals of main before the first frame; the two start times are the
\* epoch, older than any delay.
ExStart ==
    [calibration_state |-> "waiting",
     countdown_number |-> 3,
     countdown_start_time |-> MaxAge,
     capture_start_time |-> MaxAge,
     captured_positions |-> <<>>,
     fullscreen |-> FALSE,
     running |-> TRUE,
     raised |-> FALSE]

ExIdle == [ExStart EXCEPT !.running = FALSE]

\* empty_capture: a capture window of the calibration in effect (the one the
\* last press of C began) ended with no row captured.  ended_empty: the
\* capture state whose window the last frame ended with no row captured.
\* key: "r" or "c" when the last frame's key handling acted on R or on C,
\* else "none"; had_reps: reps was above 0 when that key handling began.
\* path: the calibration states the machine has been in, in order, since the
\* last press of C (since the start when C was never pressed).
\* discarded: R was pressed in the exercising state and C has not been
\* pressed since.
ExObsStart == [empty_capture |-> FALSE, ended_empty |-> "none",
               key |-> "none", had_reps |-> FALSE, path |-> <<"waiting">>,
               discarded |-> FALSE]

ExObsIdle == ExObsStart

\* The landmark sets PoseTracker.get_landmarks can hand the loop, after the
\* loop's scaling to the screen: MediaPipe reports all 33 landmarks or none,
\* so both shoulders are present whenever a body is.
Bodies ==
    {[left_shoulder |-> <<300, 100>>, right_shoulder |-> <<500, 100>>],
     [left_shoulder |-> <<300, 200>>, right_shoulder |-> <<500, 201>>]}

ExKeys == {"none", "esc", "c", "r", "f"}

\* get_key_point_y(landmarks_dict, "pushup")
get_key_point_y(landmarks_dict) ==
    IF landmarks_dict = None THEN None
    ELSE IF landmarks_dict.left_shoulder # None /\ landmarks_dict.right_shoulder # None
    THEN Rat(landmarks_dict.left_shoulder[2] + landmarks_dict.right_shoulder[2], 2)
    ELSE None

\* One step of a countdown: the number, its start time and the elapsed time
\* after the once-a-second decrement.
CountdownStep(m) ==
    LET elapsed == m.countdown_start_time
    IN  IF elapsed >= OneSecond /\ m.countdown_number > 0
        THEN [m |-> [m EXCEPT !.countdown_number = @ - 1,
                              !.countdown_start_time = 0],
              elapsed |-> 0]
        ELSE [m |-> m, elapsed |-> elapsed]

\* The countdown_1 and countdown_2 branches; next is the capture state entered.
CountdownBranch(m, next) ==
    LET c == CountdownStep(m)
    IN  IF c.m.countdown_number = 0 /\ c.elapsed >= HalfSecond
        THEN [c.m EXCEPT !.calibration_state = next,
                         !.capture_start_time = 0,
                         !.captured_positions = <<>>,
                         !.countdown_number = 3]
        ELSE c.m

\* The rows captured so far, with this frame's row when a body is in view.
CaptureRows(m, landmarks_dict) ==
    IF landmarks_dict # None /\ get_key_point_y(landmarks_dict) # None
    THEN Append(m.captured_positions, get_key_point_y(landmarks_dict))
    ELSE m.captured_positions

\* Where the machine goes when a capture window is over.
AfterCapture1_skip(rows) == "exercising"
AfterCapture1(rows) == "countdown_2"

AfterCapture2(rows) == "exercising"

\* The branches of the calibration state machine of one frame: the locals,
\* the tracker, the ticks slept, and whether an exception left the loop.
ExMachine(m, tr, landmarks_dict) ==
    LET same == [m |-> m, tr |-> tr, slept |-> 0, raised |-> FALSE,
                 window_empty |-> FALSE]
    IN
    CASE m.calibration_state = "waiting" ->
           [same EXCEPT !.m = [m EXCEPT !.calibration_state = "ready"]]
      [] m.calibration_state = "countdown_1" ->
           [same EXCEPT !.m = CountdownBranch(m, "capture_1")]
      [] m.calibration_state = "capture_1" ->
           LET rows == CaptureRows(m, landmarks_dict)
               m1 == [m EXCEPT !.captured_positions = rows]
           IN  IF m.capture_start_time >= capture_duration
               THEN [same EXCEPT
                       !.m = [m1 EXCEPT !.calibration_state = AfterCapture1(rows),
                                        !.countdown_start_time = 0,
                                        !.countdown_number = 3],
                       !.tr = IF rows # <<>>
                              THEN set_position_1(tr, RatDivInt(RatSum(rows), Len(rows)))
                              ELSE tr,
                       !.slept = IF rows # <<>> THEN OneSecond ELSE 0,
                       !.window_empty = (rows = <<>>)]
               ELSE [same EXCEPT !.m = m1]
      [] m.calibration_state = "countdown_2" ->
           [same EXCEPT !.m = CountdownBranch(m, "capture_2")]
      [] m.calibration_state = "capture_2" ->
           LET rows == CaptureRows(m, landmarks_dict)
               m1 == [m EXCEPT !.captured_positions = rows]
           IN  IF m.capture_start_time >= capture_duration
               THEN [same EXCEPT
                       !.m = [m1 EXCEPT !.calibration_state = AfterCapture2(rows)],
                       !.tr = [(IF rows # <<>>
                                THEN set_position_2(tr, RatDivInt(RatSum(rows), Len(rows)))
                                ELSE tr)
                               EXCEPT !.exercise_start_time = 0],
                       !.slept = IF rows # <<>> THEN OneSecond ELSE 0,
                       !.window_empty = (rows = <<>>)]
               ELSE [same EXCEPT !.m = m1]
      [] m.calibration_state = "exercising" ->
           LET key_y == get_key_point_y(landmarks_dict)
               tracked == landmarks_dict # None /\ tr.is_calibrated /\ key_y # None
               u == IF tracked THEN update(tr, key_y)
                    ELSE [self |-> tr, ret |-> FALSE, raised |-> FALSE]
               \* the position indicator subtracts position_1 and position_2
               indicator_raises ==
                   tracked /\ (u.self.position_1 = None \/ u.self.position_2 = None)
           IN  [same EXCEPT !.tr = u.self,
                            !.raised = u.raised \/ indicator_raises]
      [] OTHER -> same

\* The key handling at the end of a frame.
ExKeyHandling(m, tr, key) ==
    CASE key = "esc" -> [m |-> [m EXCEPT !.running = FALSE], tr |-> tr]
      [] key = "c" ->
           [m |-> [m EXCEPT !.calibration_state = "countdown_1",
                            !.countdown_number = 3,
                            !.countdown_start_time = 0],
            tr |-> reset(tr)]
      [] key = "r" -> [m |-> m, tr |-> reset(tr)]
      [] key = "f" -> [m |-> [m EXCEPT !.fullscreen = ~@], tr |-> tr]
      [] OTHER -> [m |-> m, tr |-> tr]

\* No direct call has been made.
ApiIdle == [op |-> "init", y |-> None, ret |-> FALSE, raised |-> FALSE,
            script |-> -1, reps0 |-> 0]

ExInit ==
    /\ exercise_tracker = ExerciseTracker_init
    /\ ex = ExStart
    /\ ex_obs = ExObsStart
    /\ api = ApiIdle
    /\ gesture = GestureIdle
    /\ piano = PianoIdle
    /\ piano_obs = PianoObsIdle
    /\ sign = SignIdle
    /\ sign_obs = SignObsStart
    /\ game = GameIdle
    /\ game_obs = GameObsStart
    /\ draw = DrawIdle
    /\ draw_obs = DrawObsStart
    /\ calc = CalcIdle
    /\ volume_control = VolumeIdle
    /\ volume_obs = VolumeObsStart

\* The locals dt ticks later: the stored times have aged.
ExLater(m, dt) ==
    [m EXCEPT !.countdown_start_time = Older(@, dt),
              !.capture_start_time = Older(@, dt)]

\* One pass of the while loop: a frame dt ticks after the last pass ended,
\* showing landmarks_dict (None when no body is detected), then one key.
\* time.sleep(1) after a capture makes the pass end a second later: the key
\* handling stores the frame's current_time, read before the sleep, and
\* reset reads the clock after it.
ExFrame ==
    /\ ex.running
    /\ \E dt \in 0..1, landmarks_dict \in Bodies \cup {None}, key \in ExKeys :
         LET r == ExMachine(ExLater(ex, dt), TrackerLater(exercise_tracker, dt),
                            landmarks_dict)
             k == ExKeyHandling(r.m, TrackerLater(r.tr, r.slept), key)
         IN  /\ Len(r.m.captured_positions) <= MaxCaptured
             /\ r.tr.reps <= MaxLoopReps
             /\ IF r.raised
                THEN /\ ex' = [r.m EXCEPT !.running = FALSE, !.raised = TRUE]
                     /\ exercise_tracker' = r.tr
                ELSE /\ ex' = ExLater(k.m, r.slept)
                     /\ exercise_tracker' = k.tr
             /\ ex_obs' = [empty_capture |->
                               IF ~r.raised /\ key = "c" THEN FALSE
                               ELSE ex_obs.empty_capture \/ r.window_empty,
                           ended_empty |->
                               IF r.window_empty /\ key # "c"
                               THEN ex.calibration_state ELSE "none",
                           key |-> IF ~r.raised /\ key \in {"r", "c"}
                                   THEN key ELSE "none",
                           had_reps |-> ~r.raised /\ key \in {"r", "c"}
                                        /\ r.tr.reps > 0,
                           path |->
                               IF ~r.raised /\ key = "c" THEN <<"countdown_1">>
                               ELSE IF r.m.calibration_state # ex.calibration_state
                               THEN Append(ex_obs.path, r.m.calibration_state)
                               ELSE ex_obs.path,
                           discarded |->
                               IF r.raised THEN ex_obs.discarded
                               ELSE IF key = "r" /\ r.m.calibration_state = "exercising"
                               THEN TRUE
                               ELSE IF key = "c" THEN FALSE
                               ELSE ex_obs.discarded]
    /\ UNCHANGED <<api, gesture, piano, piano_obs, sign, sign_obs, game, game_obs,
                   draw, draw_obs, calc,
                   volume_control, volume_obs>>

\* The camera stops delivering frames: get_frame returns None and the loop ends.
ExCameraEnds ==
    /\ ex.running
    /\ ex' = [ex EXCEPT !.running = FALSE]
    /\ UNCHANGED <<exercise_tracker, api, ex_obs, gesture, piano, piano_obs, sign, sign_obs, game, game_obs,
                   draw, draw_obs, calc,
                   volume_control, volume_obs>>

Next == ExFrame \/ ExCameraEnds

Spec == ExInit /\ [][Next]_vars

\* C2: when a capture window ends with no row captured, the reference position
\* it was to set stays unset and the calibration state machine does not go on
\* to the next calibration stage or to the exercising state.
C2_EmptyWindowHolds ==
    /\ ex_obs.ended_empty = "capture_1"
         => /\ exercise_tracker.position_1 = None
            /\ ex.calibration_state \notin {"countdown_2", "capture_2", "exercising"}
    /\ ex_obs.ended_empty = "capture_2"
         => /\ exercise_tracker.position_2 = None
            /\ ex.calibration_state # "exercising"

\* C3: once a capture window of the calibration in effect has ended with no
\* row captured, no frame counts a repetition and no frame raises.
C3_EmptyWindowNoCountNoRaise ==
    ex_obs.empty_capture => (~ex.raised /\ exercise_tracker.reps = 0)

\* C21: a frame whose key handling acts on R or on C, in whatever calibration
\* state, ends with reps = 0 and rep_times empty; one that acts on C also ends
\* in countdown_1 with the countdown at 3.
C21_ResetKeys ==
    [][(ex.running /\ ex'.running /\ ex_obs'.key \in {"r", "c"})
       => (/\ exercise_tracker'.reps = 0
           /\ exercise_tracker'.rep_times = <<>>
           /\ ex_obs'.key = "c"
                => (/\ ex'.calibration_state = "countdown_1"
                    /\ ex'.countdown_number = 3))]_vars

\* C was pressed in the exercising state after repetitions had been counted.
C21_Witness ==
    /\ ex_obs.key = "c"
    /\ ex_obs.had_reps
    /\ exercise_tracker.reps = 0
    /\ exercise_tracker.rep_times = <<>>
    /\ ex.calibration_state = "countdown_1"

\* C23: whenever the machine is in the exercising state, the states it has
\* been in since the last press of C are countdown_1, capture_1, countdown_2,
\* capture_2 and exercising, in that order; and a pass of the loop takes the
\* machine out of waiting / ready into a calibration state or the exercising
\* state only when its key is C, and then into countdown_1.
C23_Stages == <<"countdown_1", "capture_1", "countdown_2", "capture_2", "exercising">>

C23_CalibrationOrder ==
    /\ [](ex.calibration_state = "exercising" => ex_obs.path = C23_Stages)
    /\ [][(/\ ex.calibration_state \in {"waiting", "ready"}
            /\ ex'.calibration_state \notin {"waiting", "ready"})
           => (/\ ex_obs'.key = "c"
               /\ ex'.calibration_state = "countdown_1")]_vars

\* The exercising state was reached with both reference positions captured.
C23_Witness ==
    /\ ex.calibration_state = "exercising"
    /\ ex_obs.path = C23_Stages
    /\ exercise_tracker.is_calibrated
    /\ exercise_tracker.position_1 # None

\* C24: in every state the exercise loop can put the tracker in, a tracker
\* that is calibrated has both reference positions set.
C24_CalibratedHasPositions ==
    exercise_tracker.is_calibrated
        => (exercise_tracker.position_1 # None /\ exercise_tracker.position_2 # None)

\* C25: from a press of R in the exercising state until the next press of C,
\* the tracker is uncalibrated with no reference position, calibration_state
\* is exercising and reps is 0 after every frame, whatever the frames show;
\* and reps is 0 whenever the machine is not in the exercising state, so it
\* stays 0 from that press of C until a capture_2 window has ended again.
C25_ResetDiscardsCalibration ==
    /\ ex_obs.discarded
         => /\ ex.calibration_state = "exercising"
            /\ exercise_tracker.reps = 0
            /\ ~exercise_tracker.is_calibrated
            /\ exercise_tracker.position_1 = None
            /\ exercise_tracker.position_2 = None
            /\ ~ex.raised
    /\ ex.calibration_state # "exercising" => exercise_tracker.reps = 0

\* A frame after the press of R, with no key pressed in it, in a session
\* that goes on.
C25_Witness ==
    /\ ex_obs.discarded
    /\ ex_obs.key = "none"
    /\ ex.calibration_state = "exercising"
    /\ ex.running

\* ------------------------------------------------------- base.py: the hand

\* A hand is the list lm of HandTracker.get_landmarks: the 21 landmarks as
\* pixel points <<x, y>>, indexed 0..20 as MediaPipe numbers them.
palm(lm) == lm[9]
thumb_tip(lm) == lm[4]
index_tip(lm) == lm[8]
middle_tip(lm) == lm[12]

\* landmarks['fingers'][finger_name]: the joint chain, base first.
fingers(lm, finger_name) ==
    CASE finger_name = "thumb" -> <<lm[2], lm[3], lm[4]>>
      [] finger_name = "index" -> <<lm[5], lm[6], lm[7], lm[8]>>
      [] finger_name = "middle" -> <<lm[9], lm[10], lm[11], lm[12]>>
      [] finger_name = "ring" -> <<lm[13], lm[14], lm[15], lm[16]>>
      [] finger_name = "pinky" -> <<lm[17], lm[18], lm[19], lm[20]>>

FingerNames == <<"thumb", "index", "middle", "ring", "pinky">>

\* HandTracker.is_finger_up
is_finger_up(lm, finger_name) ==
    LET finger_points == fingers(lm, finger_name)
    IN  IF finger_name = "thumb"
        THEN finger_points[3][1] > finger_points[1][1]
        ELSE finger_points[4][2] < finger_points[1][2]

\* HandTracker.get_finger_count
get_finger_count(lm) ==
    Cardinality({i \in 1..5 : is_finger_up(lm, FingerNames[i])})

\* The hand whose five fingertips are the points of tips (thumb, index,
\* middle, ring, pinky) and whose other landmarks are those of rest.
WithTips(rest, tips) ==
    [i \in 0..20 |->
        CASE i = 4 -> tips[1]
          [] i = 8 -> tips[2]
          [] i = 12 -> tips[3]
          [] i = 16 -> tips[4]
          [] i = 20 -> tips[5]
          [] OTHER -> rest[i]]

\* ------------------------------------------ feature 3: detect_gesture
detect_gesture_any_two(lm) ==
    LET finger_count == get_finger_count(lm)
    IN  IF finger_count = 0 THEN "ROCK"
        ELSE IF finger_count = 5 THEN "PAPER"
        ELSE IF finger_count = 2 THEN "SCISSORS"
        ELSE "UNKNOWN"
detect_gesture(lm) ==
    LET finger_count == get_finger_count(lm)
    IN  IF finger_count = 0 THEN "ROCK"
        ELSE IF finger_count = 5 THEN "PAPER"
        ELSE IF /\ finger_count = 2
                /\ is_finger_up(lm, "index")
                /\ is_finger_up(lm, "middle") THEN "SCISSORS"
        ELSE "UNKNOWN"

\* The hands handed to detect_gesture: every landmark at the palm point but
\* the fingertips, each of which is left of, at or right of it (the thumb)
\* or above, at or below it (the other fingers).
GesturePalm == <<320, 240>>

GestureHands ==
    {WithTips([i \in 0..20 |-> GesturePalm],
              <<<<GesturePalm[1] + t[1], GesturePalm[2]>>,
                <<GesturePalm[1], GesturePalm[2] + t[2]>>,
                <<GesturePalm[1], GesturePalm[2] + t[3]>>,
                <<GesturePalm[1], GesturePalm[2] + t[4]>>,
                <<GesturePalm[1], GesturePalm[2] + t[5]>>>>)
       : t \in [1..5 -> {-1, 0, 1}]}

GestureInit ==
    /\ exercise_tracker = ExerciseTracker_init
    /\ api = ApiIdle
    /\ ex = ExIdle
    /\ ex_obs = ExObsIdle
    /\ \E lm \in GestureHands : gesture = [lm |-> lm, label |-> "none"]
    /\ piano = PianoIdle
    /\ piano_obs = PianoObsIdle
    /\ sign = SignIdle
    /\ sign_obs = SignObsStart
    /\ game = GameIdle
    /\ game_obs = GameObsStart
    /\ draw = DrawIdle
    /\ draw_obs = DrawObsStart
    /\ calc = CalcIdle
    /\ volume_control = VolumeIdle
    /\ volume_obs = VolumeObsStart

DetectGesture ==
    /\ gesture.lm # None
    /\ gesture' = [gesture EXCEPT !.label = detect_gesture(gesture.lm)]
    /\ UNCHANGED <<exercise_tracker, api, ex, ex_obs, piano, piano_obs, sign, sign_obs, game, game_obs,
                   draw, draw_obs, calc,
                   volume_control, volume_obs>>

GestureNext == DetectGesture

SpecGesture == GestureInit /\ [][GestureNext]_vars

\* C7: detect_gesture returns ROCK iff no finger is up, PAPER iff all five are
\* up, SCISSORS iff exactly index and middle are up, and UNKNOWN for every
\* other combination of the five finger-up flags.
C7_Up(lm) == {i \in 1..5 : is_finger_up(lm, FingerNames[i])}

C7_GestureTable ==
    gesture.label # "none" =>
        /\ gesture.label = "ROCK" <=> C7_Up(gesture.lm) = {}
        /\ gesture.label = "PAPER" <=> C7_Up(gesture.lm) = {1, 2, 3, 4, 5}
        /\ gesture.label = "SCISSORS" <=> C7_Up(gesture.lm) = {2, 3}
        /\ gesture.label = "UNKNOWN"
             <=> C7_Up(gesture.lm) \notin {{}, {1, 2, 3, 4, 5}, {2, 3}}

\* Index and ring up, nothing else: two fingers, and the label is UNKNOWN.
C7_Witness ==
    /\ gesture.lm # None
    /\ C7_Up(gesture.lm) = {2, 4}
    /\ gesture.label = "UNKNOWN"

\* ------------------------------------------------- feature 7: the AirPiano
\* The frame resize_frame_for_fullscreen returns is the 1920 x 1080 screen.
piano_frame == [width |-> 1920, height |-> 1080]

keyboard_y == piano_frame.height - 200
key_width == 60
key_height == 150
black_key_width == 40
black_key_height == 100

white_notes == <<"C", "D", "E", "F", "G", "A", "B">>
black_notes == <<"C#", "D#", "None", "F#", "G#", "A#">>

start_x == (piano_frame.width - Len(white_notes) * key_width) \div 2

\* self.keys of AirPiano.__init__: the seven white keys, then the black ones.
white_keys ==
    [i \in 1..Len(white_notes) |->
        [x |-> start_x + (i - 1) * key_width, y |-> keyboard_y,
         width |-> key_width, height |-> key_height, note |-> white_notes[i]]]

black_keys ==
    LET key(i) == [x |-> start_x + (i - 1) * key_width + key_width
                           - black_key_width \div 2,
                   y |-> keyboard_y, width |-> black_key_width,
                   height |-> black_key_height, note |-> black_notes[i]]
    IN  SelectSeq([i \in 1..Len(black_notes) |-> key(i)],
                  LAMBDA k : k.note # "None")

keys == white_keys \o black_keys

\* PianoKey.contains_point
contains_point(key, point) ==
    /\ key.x <= point[1] /\ point[1] <= key.x + key.width
    /\ key.y <= point[2] /\ point[2] <= key.y + key.height

\* AirPiano.check_key_press from key i on: the pressed flags after the call
\* and the note returned ("None" for None).  The loop returns at the first
\* key that has just become pressed, leaving the keys after it untouched.
RECURSIVE check_key_press_from(_, _, _)
check_key_press_from(pressed, finger_tip, i) ==
    IF i > Len(keys) THEN [pressed |-> pressed, note |-> "None"]
    ELSE LET was_pressed == pressed[i]
             now_pressed == contains_point(keys[i], finger_tip)
             p == [pressed EXCEPT ![i] = now_pressed]
         IN  IF now_pressed /\ ~was_pressed
             THEN [pressed |-> p, note |-> keys[i].note]
             ELSE check_key_press_from(p, finger_tip, i + 1)

check_key_press(pressed, finger_tip) == check_key_press_from(pressed, finger_tip, 1)

\* The fingertips handed to check_key_press: left of the keyboard, on C alone,
\* on C and C#, on the shared edge of C and D under C#, on D and C#, on D
\* alone; each over the black keys' rows and over the rows below them, and
\* one point above the keyboard.
PianoTips ==
    {<<start_x + dx, keyboard_y + dy>> :
        dx \in {-10, 10, 45, 60, 70, 90, 105, 120, 130}, dy \in {50, 120}}
    \cup {<<start_x + 45, keyboard_y - 10>>}

PianoInit ==
    /\ exercise_tracker = ExerciseTracker_init
    /\ api = ApiIdle
    /\ ex = ExIdle
    /\ ex_obs = ExObsIdle
    /\ gesture = GestureIdle
    /\ piano = [i \in 1..Len(keys) |-> FALSE]
    /\ piano_obs = PianoObsIdle
    /\ sign = SignIdle
    /\ sign_obs = SignObsStart
    /\ game = GameIdle
    /\ game_obs = GameObsStart
    /\ draw = DrawIdle
    /\ draw_obs = DrawObsStart
    /\ calc = CalcIdle
    /\ volume_control = VolumeIdle
    /\ volume_obs = VolumeObsStart

\* piano_obs.returned[i]: how often key i's note was returned during the run
\* of consecutive calls, ending at the last call, that had the fingertip on
\* key i (0 when the last call did not).
CheckKeyPress ==
    /\ \E finger_tip \in PianoTips :
         LET r == check_key_press(piano, finger_tip)
         IN  /\ piano' = r.pressed
             /\ piano_obs' =
                  [finger_tip |-> finger_tip, note |-> r.note,
                   returned |->
                     [i \in 1..Len(keys) |->
                        IF contains_point(keys[i], finger_tip)
                        THEN piano_obs.returned[i]
                             + (IF r.note = keys[i].note THEN 1 ELSE 0)
                        ELSE 0]]
    /\ UNCHANGED <<exercise_tracker, api, ex, ex_obs, gesture, sign, sign_obs, game, game_obs,
                   draw, draw_obs, calc,
                   volume_control, volume_obs>>

PianoNext == CheckKeyPress

SpecPiano == PianoInit /\ [][PianoNext]_vars

\* C8: each key's note is returned exactly once per maximal run of consecutive
\* check_key_press calls that have the fingertip inside the key's rectangle:
\* never twice during a run, and once by the time the run is over.
C8_Inside(i, point) ==
    /\ point # None
    /\ point[1] \in keys[i].x..(keys[i].x + keys[i].width)
    /\ point[2] \in keys[i].y..(keys[i].y + keys[i].height)

C8_OncePerRun ==
    /\ [](\A i \in 1..Len(keys) : piano_obs.returned[i] <= 1)
    /\ [][\A i \in 1..Len(keys) :
            (C8_Inside(i, piano_obs.finger_tip) /\ ~C8_Inside(i, piano_obs'.finger_tip))
            => piano_obs.returned[i] = 1]_vars

\* ------------------------------------------ feature 1: detect_asl_letter
\* The square of HandTracker.get_distance; the code's comparisons of the
\* distance with a whole number of pixels are comparisons of the squares.
get_distance2(point1, point2) ==
    (point1[1] - point2[1]) * (point1[1] - point2[1])
    + (point1[2] - point2[2]) * (point1[2] - point2[2])

check_finger_extended(lm, finger_name) ==
    LET finger_points == fingers(lm, finger_name)
    IN  IF finger_name = "thumb"
        THEN Abs(finger_points[3][1] - finger_points[1][1]) > 40
        ELSE (finger_points[1][2] - finger_points[4][2]) > 30

NoMatch == <<"? (0 fingers)", "? (1 fingers)", "? (2 fingers)",
             "? (3 fingers)", "? (4 fingers)">>

\* The test of the first rule, "A - Fist (all fingers down, thumb can be in
\* or out)".
fist_rule_thumb_in(finger_count, thumb) == finger_count = 0 /\ ~thumb
fist_rule(finger_count, thumb) == finger_count = 0

detect_asl_letter(lm) ==
    LET thumb == check_finger_extended(lm, "thumb")
        index == check_finger_extended(lm, "index")
        middle == check_finger_extended(lm, "middle")
        ring == check_finger_extended(lm, "ring")
        pinky == check_finger_extended(lm, "pinky")
        finger_count ==
            Cardinality({i \in 2..5 : check_finger_extended(lm, FingerNames[i])})
        thumb_index_dist2 == get_distance2(thumb_tip(lm), index_tip(lm))
        index_middle_dist2 == get_distance2(index_tip(lm), middle_tip(lm))
        thumb_middle_dist2 == get_distance2(thumb_tip(lm), middle_tip(lm))
        \* abs(degrees(arctan2(dy, dx))) < 45 or > 135
        dx == index_tip(lm)[1] - palm(lm)[1]
        dy == index_tip(lm)[2] - palm(lm)[2]
        pointing == (dx = 0 /\ dy = 0) \/ Abs(dy) < Abs(dx)
        two_up == index /\ middle /\ finger_count = 2
    IN
    IF fist_rule(finger_count, thumb) THEN "A"
    ELSE IF finger_count = 4 THEN "B"
    ELSE IF /\ thumb /\ index /\ ~middle
            /\ 30 * 30 < thumb_index_dist2 /\ thumb_index_dist2 < 80 * 80 THEN "C"
    ELSE IF finger_count = 1 /\ index /\ ~thumb THEN "D"
    ELSE IF /\ finger_count = 0
            /\ lm[8][2] > lm[6][2] /\ lm[12][2] > lm[10][2]
            /\ lm[16][2] > lm[14][2] /\ lm[20][2] > lm[18][2] THEN "E"
    ELSE IF middle /\ ring /\ pinky /\ thumb_index_dist2 < 40 * 40 THEN "F"
    ELSE IF index /\ ~middle /\ finger_count = 1 /\ pointing THEN "G"
    ELSE IF two_up /\ index_middle_dist2 < 30 * 30 THEN "H"
    ELSE IF finger_count = 1 /\ pinky THEN "I"
    ELSE IF /\ two_up /\ index_middle_dist2 > 40 * 40
            /\ thumb_middle_dist2 < 50 * 50 THEN "K"
    ELSE IF index /\ thumb /\ ~middle THEN "L"
    ELSE IF finger_count = 0 /\ ~thumb THEN "A"
    ELSE IF finger_count = 2 /\ ring /\ pinky THEN "N"
    ELSE IF /\ finger_count = 0
            /\ 20 * 20 < thumb_index_dist2 /\ thumb_index_dist2 < 60 * 60 THEN "O"
    ELSE IF index /\ middle /\ thumb THEN "P"
    ELSE IF index /\ finger_count = 1 THEN "G"
    ELSE IF two_up /\ index_middle_dist2 > 30 * 30 THEN "R"
    ELSE IF finger_count = 0 /\ thumb THEN "S"
    ELSE IF /\ two_up /\ thumb_index_dist2 < 40 * 40
            /\ thumb_middle_dist2 < 40 * 40 THEN "T"
    ELSE IF two_up /\ index_middle_dist2 < 30 * 30 THEN "U"
    ELSE IF two_up /\ index_middle_dist2 > 40 * 40 THEN "V"
    ELSE IF finger_count = 3 /\ index /\ middle /\ ring THEN "W"
    ELSE IF finger_count = 0 /\ lm[6][2] < lm[8][2] /\ lm[8][2] < lm[5][2] THEN "X"
    ELSE IF pinky /\ thumb /\ ~index THEN "Y"
    ELSE IF index /\ finger_count = 1 THEN "D"
    ELSE NoMatch[finger_count + 1]

\* ------------------------------------------------ feature 1: the main loop
confidence_threshold == 5

\* frame.shape of the frames the camera delivers (OpenCV's default capture
\* size), rows first.
frame_shape == <<480, 640>>

\* The learning-mode button: x, y, width, height.
button_width == 300
button_height == 50
button_x == (frame_shape[2] - button_width) \div 2
button_y == frame_shape[1] - 80

button_hover(point) ==
    /\ button_x <= point[1] /\ point[1] <= button_x + button_width
    /\ button_y <= point[2] /\ point[2] <= button_y + button_height

\* The stability check: the letter, its count, and the text to display.
stability_late(last_letter, letter_count, detected_letter) ==
    LET n == IF detected_letter = last_letter THEN letter_count + 1 ELSE 1
    IN  [last_letter |-> detected_letter,
         letter_count |-> n,
         display_letter |-> IF n > confidence_threshold
                            THEN detected_letter ELSE "Detecting..."]
stability(last_letter, letter_count, detected_letter) ==
    LET n == IF detected_letter = last_letter THEN letter_count + 1 ELSE 1
    IN  [last_letter |-> detected_letter,
         letter_count |-> n,
         display_letter |-> IF n >= confidence_threshold
                            THEN detected_letter ELSE "Detecting..."]

\* The learning-mode button of a frame with a hand: learning_mode and
\* last_button_state after it.
learning_button_held(learning_mode, last_button_state, hover) ==
    IF hover
    THEN [learning_mode |-> ~learning_mode, last_button_state |-> TRUE]
    ELSE [learning_mode |-> learning_mode, last_button_state |-> FALSE]
learning_button(learning_mode, last_button_state, hover) ==
    IF hover /\ ~last_button_state
    THEN [learning_mode |-> ~learning_mode, last_button_state |-> TRUE]
    ELSE IF ~hover
    THEN [learning_mode |-> learning_mode, last_button_state |-> FALSE]
    ELSE [learning_mode |-> learning_mode, last_button_state |-> last_button_state]

\* The hands the loop is shown.  Every landmark but the index and pinky tips
\* is at SignRest; an index tip on the button (in its middle, on its corner),
\* just left of it, or raised above its base; a pinky tip down or raised.
SignRest == <<320, 300>>

SignHands ==
    {WithTips([i \in 0..20 |-> SignRest],
              <<SignRest, t[1], SignRest, SignRest, t[2]>>)
       : t \in {<<<<320, 420>>, SignRest>>,
                <<<<320, 420>>, <<400, 200>>>>,
                <<<<button_x, button_y>>, SignRest>>,
                <<<<button_x - 1, 420>>, SignRest>>,
                <<<<button_x - 1, 420>>, <<400, 200>>>>,
                <<<<320, 200>>, SignRest>>}}

SignKeys == {"none", "esc", "l", "f"}

\* The last five of a sequence.
LastFive(q) == IF Len(q) <= 5 THEN q ELSE SubSeq(q, Len(q) - 4, Len(q))

SignInit ==
    /\ exercise_tracker = ExerciseTracker_init
    /\ api = ApiIdle
    /\ ex = ExIdle
    /\ ex_obs = ExObsIdle
    /\ gesture = GestureIdle
    /\ piano = PianoIdle
    /\ piano_obs = PianoObsIdle
    /\ sign = SignStart
    /\ sign_obs = SignObsStart
    /\ game = GameIdle
    /\ game_obs = GameObsStart
    /\ draw = DrawIdle
    /\ draw_obs = DrawObsStart
    /\ calc = CalcIdle
    /\ volume_control = VolumeIdle
    /\ volume_obs = VolumeObsStart

\* One pass of the while loop: a frame showing the hand lm (None when no
\* hand is detected), then one key.  Reading display_letter before any frame
\* has assigned it raises UnboundLocalError, which ends main.
SignFrame ==
    /\ sign.running
    /\ \E lm \in SignHands \cup {None}, key \in SignKeys :
         LET detected_letter == IF lm # None THEN detect_asl_letter(lm) ELSE "No Hand"
             st == IF lm # None
                   THEN stability(sign.last_letter, sign.letter_count, detected_letter)
                   ELSE [last_letter |-> "None", letter_count |-> 0,
                         display_letter |-> sign.display_letter]
             raises == st.display_letter = Unbound
             hover == lm # None /\ button_hover(index_tip(lm))
             b == IF lm # None
                  THEN learning_button(sign.learning_mode, sign.last_button_state, hover)
                  ELSE [learning_mode |-> sign.learning_mode,
                        last_button_state |-> FALSE]
             s1 == [sign EXCEPT !.last_letter = st.last_letter,
                                !.letter_count = st.letter_count,
                                !.display_letter = st.display_letter]
             s2 == [s1 EXCEPT !.learning_mode = b.learning_mode,
                              !.last_button_state = b.last_button_state]
             s3 == CASE key = "esc" -> [s2 EXCEPT !.running = FALSE]
                     [] key = "l" -> [s2 EXCEPT !.learning_mode = ~@]
                     [] key = "f" -> [s2 EXCEPT !.fullscreen = ~@]
                     [] OTHER -> s2
         IN  /\ st.letter_count <= MaxLetterCount
             /\ sign' = IF raises
                        THEN [s1 EXCEPT !.running = FALSE, !.raised = TRUE]
                        ELSE s3
             /\ sign_obs' = [recent |-> LastFive(Append(sign_obs.recent, detected_letter)),
                             shown |-> IF raises THEN "none" ELSE st.display_letter,
                             inside |-> ~raises /\ hover,
                             prev_inside |-> sign_obs.inside,
                             key |-> IF raises THEN "none" ELSE key]
    /\ UNCHANGED <<exercise_tracker, api, ex, ex_obs, gesture, piano, piano_obs,
                   game, game_obs,
                   draw, draw_obs, calc,
                   volume_control, volume_obs>>

\* The camera stops delivering frames: get_frame returns None and the loop ends.
SignCameraEnds ==
    /\ sign.running
    /\ sign' = [sign EXCEPT !.running = FALSE]
    /\ sign_obs' = [sign_obs EXCEPT !.key = "none", !.prev_inside = sign_obs.inside]
    /\ UNCHANGED <<exercise_tracker, api, ex, ex_obs, gesture, piano, piano_obs,
                   game, game_obs,
                   draw, draw_obs, calc,
                   volume_control, volume_obs>>

SignNext == SignFrame \/ SignCameraEnds

SpecSign == SignInit /\ [][SignNext]_vars

\* C5: on a frame with a hand, the text displayed is the candidate letter
\* exactly when the same candidate was produced by five or more consecutive
\* frames ending with this one, and "Detecting..." otherwise; a candidate
\* that differs from the previous frame's sets letter_count to 1.
C5_Stable ==
    LET q == sign_obs.recent
        n == Len(q)
    IN  (n > 0 /\ q[n] # "No Hand" /\ ~sign.raised) =>
          /\ sign_obs.shown =
               (IF n >= 5 /\ \A i \in (n - 4)..n : q[i] = q[n]
                THEN q[n] ELSE "Detecting...")
          /\ (n >= 2 /\ q[n - 1] # q[n]) => sign.letter_count = 1
          /\ n = 1 => sign.letter_count = 1

\* The fifth frame in a row with the candidate "I" displays "I".
C5_Witness ==
    /\ sign_obs.recent = <<"I", "I", "I", "I", "I">>
    /\ sign.letter_count = 5
    /\ sign_obs.shown = "I"

\* C6: a frame in which no hand is detected, the first frame of a session
\* included, does not raise and displays the no-detection label.
C6_NoHandLabel ==
    LET q == sign_obs.recent
    IN  (q # <<>> /\ q[Len(q)] = "No Hand") =>
            (~sign.raised /\ sign_obs.shown = "No Hand")

\* C10: a frame toggles learning_mode through the button exactly when a hand
\* is detected with its index fingertip on the button and the frame before
\* had no such fingertip on it (the L key toggles it once more).
C10_Toggle(mode, fired, key_l) == (mode # fired) # key_l

C10_ButtonOncePerRun ==
    [][sign'.learning_mode =
         C10_Toggle(sign.learning_mode,
                    sign_obs'.inside /\ ~sign_obs.inside,
                    sign_obs'.key = "l")]_vars

\* The fingertip has been on the button for two frames and no key was
\* pressed: the mode is as the first of them left it.
C10_Witness ==
    /\ sign_obs.inside
    /\ sign_obs.prev_inside
    /\ sign_obs.key = "none"
    /\ sign.last_button_state
    /\ sign.learning_mode

\* ------------------------------------------------ feature 3: the main loop
get_computer_choice == {"ROCK", "PAPER", "SCISSORS"}

\* determine_winner: the text, the player's points and the computer's.
determine_winner_tie_scores(player, computer) ==
    IF player = computer THEN <<"TIE", 1, 1>>
    ELSE IF \/ (player = "ROCK" /\ computer = "SCISSORS")
            \/ (player = "PAPER" /\ computer = "ROCK")
            \/ (player = "SCISSORS" /\ computer = "PAPER")
    THEN <<"YOU WIN!", 1, 0>>
    ELSE <<"COMPUTER WINS!", 0, 1>>
determine_winner(player, computer) ==
    IF player = computer THEN <<"TIE", 0, 0>>
    ELSE IF \/ (player = "ROCK" /\ computer = "SCISSORS")
            \/ (player = "PAPER" /\ computer = "ROCK")
            \/ (player = "SCISSORS" /\ computer = "PAPER")
    THEN <<"YOU WIN!", 1, 0>>
    ELSE <<"COMPUTER WINS!", 0, 1>>

\* draw_button's return value: the rectangle (x, y, x + width, y + height).
draw_button(x, y, width, height) == <<x, y, x + width, y + height>>

start_button_area ==
    draw_button(frame_shape[2] \div 2 - 150, frame_shape[1] \div 2 - 25, 300, 50)

replay_button ==
    draw_button(frame_shape[2] \div 2 - 150, frame_shape[1] \div 2 + 100, 300, 50)

check_button_click(point, button_area) ==
    /\ button_area[1] <= point[1] /\ point[1] <= button_area[3]
    /\ button_area[2] <= point[2] /\ point[2] <= button_area[4]

\* A hand with its index fingertip at tip and the fingers of up raised
\* (1 thumb .. 5 pinky): each base is ten pixels from its tip.
GameHand(tip, up) ==
    LET rest == <<100, 100>>
        tip_of(i) == IF i = 2 THEN tip ELSE rest
        base_of(i) ==
            IF i = 1
            THEN <<tip_of(i)[1] + (IF i \in up THEN -10 ELSE 10), tip_of(i)[2]>>
            ELSE <<tip_of(i)[1], tip_of(i)[2] + (IF i \in up THEN 10 ELSE -10)>>
    IN  [k \in 0..20 |->
            CASE k = 2 -> base_of(1) [] k = 4 -> tip_of(1)
              [] k = 5 -> base_of(2) [] k = 8 -> tip_of(2)
              [] k = 9 -> base_of(3) [] k = 12 -> tip_of(3)
              [] k = 13 -> base_of(4) [] k = 16 -> tip_of(4)
              [] k = 17 -> base_of(5) [] k = 20 -> tip_of(5)
              [] OTHER -> rest]

\* The hands the game is shown: the index fingertip inside START GAME, inside
\* PLAY AGAIN or on neither, with a fist, an open hand, a V or a lone index.
GameHands ==
    {GameHand(tip, up) :
        tip \in {<<320, 240>>, <<320, 365>>, <<100, 100>>},
        up \in {{}, {1, 2, 3, 4, 5}, {2, 3}, {2}}}

\* The locals dt ticks later: the stored times have aged.
GameLater(g, dt) ==
    [g EXCEPT !.countdown_start_time = OlderCap(@, dt, GameMaxAge),
              !.result_start_time = IF @ = -1 THEN -1 ELSE OlderCap(@, dt, GameMaxAge)]

\* "Check for victory": the state that follows the result display.
after_result_over(g) ==
    IF g.player_score > 5 \/ g.computer_score > 5 THEN "VICTORY" ELSE "MENU"
after_result(g) ==
    IF g.player_score >= 5 \/ g.computer_score >= 5 THEN "VICTORY" ELSE "MENU"

\* The game state machine of one frame: the locals, what acted, and whether
\* an exception left the loop.
GameMachine(g, lm, key1, choice) ==
    LET index_tip_ == IF lm # None THEN index_tip(lm) ELSE None
        same == [g |-> g, acted |-> "none", raised |-> FALSE]
        start == [g EXCEPT !.game_state = "COUNTDOWN",
                           !.countdown_number = 3,
                           !.countdown_start_time = 0]
        again == [g EXCEPT !.player_score = 0,
                           !.computer_score = 0,
                           !.game_state = "MENU"]
    IN
    CASE g.game_state = "MENU" ->
           IF index_tip_ # None /\ check_button_click(index_tip_, start_button_area)
           THEN [same EXCEPT !.g = start, !.acted = "start_button"]
           ELSE IF key1 = "s"
           THEN [same EXCEPT !.g = start, !.acted = "s_key"]
           ELSE same
      [] g.game_state = "COUNTDOWN" ->
           LET tick == g.countdown_start_time >= 2 /\ g.countdown_number > 0
               g1 == IF tick
                     THEN [g EXCEPT !.countdown_number = @ - 1,
                                    !.countdown_start_time = 0]
                     ELSE g
               elapsed == g1.countdown_start_time
           IN  IF g1.countdown_number > 0 THEN [same EXCEPT !.g = g1]
               ELSE IF elapsed >= 1
               THEN LET detected == IF lm # None THEN detect_gesture(lm) ELSE "ROCK"
                        player_choice == IF detected = "UNKNOWN" THEN "ROCK"
                                         ELSE detected
                        w == determine_winner(player_choice, choice)
                    IN  [same EXCEPT !.g =
                           [g1 EXCEPT !.player_choice = player_choice,
                                      !.computer_choice = choice,
                                      !.result_text = w[1],
                                      !.player_score = @ + w[2],
                                      !.computer_score = @ + w[3],
                                      !.game_state = "RESULT",
                                      !.result_start_time = 0]]
               ELSE [same EXCEPT !.g = g1]
      [] g.game_state = "RESULT" ->
           IF g.result_start_time = -1 THEN [same EXCEPT !.raised = TRUE]
           ELSE IF g.result_start_time >= 6
           THEN [same EXCEPT !.g = [g EXCEPT !.game_state = after_result(g)]]
           ELSE same
      [] g.game_state = "VICTORY" ->
           IF index_tip_ # None /\ check_button_click(index_tip_, replay_button)
           THEN [same EXCEPT !.g = again, !.acted = "replay_button"]
           ELSE IF key1 = "r"
           THEN [same EXCEPT !.g = again, !.acted = "r_key"]
           ELSE same
      [] OTHER -> same

GameInit ==
    /\ exercise_tracker = ExerciseTracker_init
    /\ api = ApiIdle
    /\ ex = ExIdle
    /\ ex_obs = ExObsIdle
    /\ gesture = GestureIdle
    /\ piano = PianoIdle
    /\ piano_obs = PianoObsIdle
    /\ sign = SignIdle
    /\ sign_obs = SignObsStart
    /\ game = GameStart
    /\ game_obs = GameObsStart
    /\ draw = DrawIdle
    /\ draw_obs = DrawObsStart
    /\ calc = CalcIdle
    /\ volume_control = VolumeIdle
    /\ volume_obs = VolumeObsStart

\* The keys the waitKey of the MENU and VICTORY branches can tell apart, and
\* the outcomes of random.choice where the COUNTDOWN branch calls it.
GameKeys1(g) ==
    CASE g.game_state = "MENU" -> {"none", "s"}
      [] g.game_state = "VICTORY" -> {"none", "r"}
      [] OTHER -> {"none"}

GameChoices(g) ==
    IF g.game_state = "COUNTDOWN" THEN get_computer_choice ELSE {"ROCK"}

\* One pass of the while loop: a frame dt ticks after the last one, showing
\* the hand lm (None when no hand is detected); key1 is the key the MENU and
\* VICTORY branches poll, key2 the key polled at the end of the pass, choice
\* the computer's random choice.
GameFrame ==
    /\ game.running
    /\ \E dt \in 0..1, lm \in GameHands \cup {None}, key1 \in GameKeys1(game),
          key2 \in {"none", "esc", "f"}, choice \in GameChoices(game) :
         LET r == GameMachine(GameLater(game, dt), lm, key1, choice)
             g == CASE key2 = "esc" -> [r.g EXCEPT !.running = FALSE]
                    [] key2 = "f" -> [r.g EXCEPT !.fullscreen = ~@]
                    [] OTHER -> r.g
         IN  /\ game' = IF r.raised
                        THEN [r.g EXCEPT !.running = FALSE, !.raised = TRUE]
                        ELSE g
             /\ game_obs' =
                  [inside_start |->
                       lm # None /\ check_button_click(index_tip(lm), start_button_area),
                   inside_replay |->
                       lm # None /\ check_button_click(index_tip(lm), replay_button),
                   acted |-> r.acted]
    /\ UNCHANGED <<exercise_tracker, api, ex, ex_obs, gesture, piano, piano_obs,
                   sign, sign_obs,
                   draw, draw_obs, calc,
                   volume_control, volume_obs>>

\* The camera stops delivering frames: get_frame returns None and the loop ends.
GameCameraEnds ==
    /\ game.running
    /\ game' = [game EXCEPT !.running = FALSE]
    /\ game_obs' = [game_obs EXCEPT !.acted = "none"]
    /\ UNCHANGED <<exercise_tracker, api, ex, ex_obs, gesture, piano, piano_obs,
                   sign, sign_obs,
                   draw, draw_obs, calc,
                   volume_control, volume_obs>>

GameNext == GameFrame \/ GameCameraEnds

SpecGame == GameInit /\ [][GameNext]_vars

\* C9: the START GAME and PLAY AGAIN buttons act only on a frame whose index
\* fingertip is inside the button's rectangle and was not inside it on the
\* frame before; a fingertip held inside START GAME across a round does not
\* start a second one.
C9_ButtonsDebounced ==
    [][/\ game_obs'.acted = "start_button"
            => (game_obs'.inside_start /\ ~game_obs.inside_start)
       /\ game_obs'.acted = "replay_button"
            => (game_obs'.inside_replay /\ ~game_obs.inside_replay)]_vars


\* C27: both scores stay within 0..5 and are never both 5; and the frame that
\* ends a round (COUNTDOWN to RESULT) adds 1 to exactly one score, or to
\* neither, which it does exactly when the two choices are equal.
C27_Scores ==
    /\ [](/\ game.player_score \in 0..5
           /\ game.computer_score \in 0..5
           /\ ~(game.player_score = 5 /\ game.computer_score = 5))
    /\ [][(game.game_state = "COUNTDOWN" /\ game'.game_state = "RESULT")
           => LET dp == game'.player_score - game.player_score
                  dc == game'.computer_score - game.computer_score
              IN  /\ <<dp, dc>> \in {<<1, 0>>, <<0, 1>>, <<0, 0>>}
                  /\ (<<dp, dc>> = <<0, 0>>)
                       <=> (game'.player_choice = game'.computer_choice)]_vars

\* A round has just taken the player to 5 with the computer at 4.
C27_Witness ==
    /\ game.game_state = "RESULT"
    /\ game.result_start_time = 0
    /\ game.player_score = 5
    /\ game.computer_score = 4
    /\ game.result_text = "YOU WIN!"

\* C17: the game enters VICTORY exactly when a result display ends with
\* player_score or computer_score at 5; VICTORY is left only for MENU with both
\* scores back at 0, and a countdown starts only from MENU, where, as during
\* the countdown, both scores are below 5.
C17_Victory ==
    /\ [](game.game_state \in {"MENU", "COUNTDOWN"}
            => (game.player_score < 5 /\ game.computer_score < 5))
    /\ [][/\ (game.game_state # "VICTORY" /\ game'.game_state = "VICTORY")
               => /\ game.game_state = "RESULT"
                  /\ game'.player_score = 5 \/ game'.computer_score = 5
                  /\ game'.player_score = game.player_score
                  /\ game'.computer_score = game.computer_score
          /\ (game.game_state = "RESULT" /\ game'.game_state # "RESULT")
               => (game'.game_state = "VICTORY"
                     <=> (game.player_score = 5 \/ game.computer_score = 5))
          /\ (game.game_state = "VICTORY" /\ game'.game_state # "VICTORY")
               => /\ game'.game_state = "MENU"
                  /\ game'.player_score = 0 /\ game'.computer_score = 0
          /\ (game.game_state # "COUNTDOWN" /\ game'.game_state = "COUNTDOWN")
               => game.game_state = "MENU"]_vars

\* The player has won the game: VICTORY with player_score at 5.
C17_Witness ==
    /\ game.game_state = "VICTORY"
    /\ game.player_score = 5
    /\ game.computer_score < 5

\* ------------------------------------------- direct ExerciseTracker calls
\* The rows handed to the tracker when it is driven directly.
TrackerYs == {Num(100), Num(150), Num(200)}

\* The frame sequence of the calibrated-counter example.
Example == <<100, 100, 150, 200, 200, 150, 100>>

\* api.script counts how much of Example the update calls have followed
\* since the tracker was calibrated to (100, 200) in phase position_1 with
\* api.reps0 repetitions; -1 when the calls are not following Example.
ApiScriptStart(self) ==
    IF /\ self.is_calibrated
       /\ self.position_1 = Num(100)
       /\ self.position_2 = Num(200)
       /\ self.current_state = "position_1"
    THEN 0 ELSE -1

ApiInit ==
    /\ ex = ExIdle
    /\ ex_obs = ExObsIdle
    /\ gesture = GestureIdle
    /\ piano = PianoIdle
    /\ piano_obs = PianoObsIdle
    /\ sign = SignIdle
    /\ sign_obs = SignObsStart
    /\ game = GameIdle
    /\ game_obs = GameObsStart
    /\ exercise_tracker = ExerciseTracker_init
    /\ api = ApiIdle
    /\ draw = DrawIdle
    /\ draw_obs = DrawObsStart
    /\ calc = CalcIdle
    /\ volume_control = VolumeIdle
    /\ volume_obs = VolumeObsStart

ApiSetPosition1 ==
    /\ ~api.raised
    /\ \E y \in TrackerYs :
         LET self == set_position_1(exercise_tracker, y)
         IN  /\ exercise_tracker' = self
             /\ api' = [op |-> "set_position_1", y |-> y, ret |-> FALSE,
                        raised |-> FALSE, script |-> ApiScriptStart(self),
                        reps0 |-> self.reps]
    /\ UNCHANGED <<ex, ex_obs, gesture, piano, piano_obs, sign, sign_obs, game, game_obs,
                   draw, draw_obs, calc,
                   volume_control, volume_obs>>

ApiSetPosition2 ==
    /\ ~api.raised
    /\ \E y \in TrackerYs :
         LET self == set_position_2(exercise_tracker, y)
         IN  /\ exercise_tracker' = self
             /\ api' = [op |-> "set_position_2", y |-> y, ret |-> FALSE,
                        raised |-> FALSE, script |-> ApiScriptStart(self),
                        reps0 |-> self.reps]
    /\ UNCHANGED <<ex, ex_obs, gesture, piano, piano_obs, sign, sign_obs, game, game_obs,
                   draw, draw_obs, calc,
                   volume_control, volume_obs>>

ApiUpdate ==
    /\ ~api.raised
    /\ exercise_tracker.reps < MaxReps
    /\ \E y \in TrackerYs, dt \in 0..1 :
         LET r == update(TrackerLater(exercise_tracker, dt), y)
         IN  /\ exercise_tracker' = r.self
             /\ api' = [op |-> "update", y |-> y, ret |-> r.ret,
                        raised |-> r.raised,
                        script |-> IF /\ api.script \in 0..(Len(Example) - 1)
                                      /\ y = Num(Example[api.script + 1])
                                   THEN api.script + 1 ELSE -1,
                        reps0 |-> api.reps0]
    /\ UNCHANGED <<ex, ex_obs, gesture, piano, piano_obs, sign, sign_obs, game, game_obs,
                   draw, draw_obs, calc,
                   volume_control, volume_obs>>

ApiReset ==
    /\ ~api.raised
    /\ exercise_tracker' = reset(exercise_tracker)
    /\ api' = [op |-> "reset", y |-> None, ret |-> FALSE, raised |-> FALSE,
               script |-> -1, reps0 |-> 0]
    /\ UNCHANGED <<ex, ex_obs, gesture, piano, piano_obs, sign, sign_obs, game, game_obs,
                   draw, draw_obs, calc,
                   volume_control, volume_obs>>

ApiNext == ApiSetPosition1 \/ ApiSetPosition2 \/ ApiUpdate \/ ApiReset

SpecTracker == ApiInit /\ [][ApiNext]_vars

\* C1: on a calibrated tracker an update call adds exactly one repetition when
\* the stored phase is position_2 and the row is strictly nearer to position_1
\* than to position_2, and leaves the count alone otherwise; the example
\* sequence 100,100,150,200,200,150,100 between 100 and 200 counts exactly one.
C1_StrictlyNearer1(y, p1, p2) ==
    (y[1] - p1[1]) * (y[1] - p1[1]) < (y[1] - p2[1]) * (y[1] - p2[1])

C1_Step ==
    (/\ api'.op = "update"
     /\ exercise_tracker.is_calibrated
     /\ exercise_tracker.position_1 # None
     /\ exercise_tracker.position_2 # None)
    => exercise_tracker'.reps = exercise_tracker.reps +
         (IF /\ exercise_tracker.current_state = "position_2"
             /\ C1_StrictlyNearer1(api'.y, exercise_tracker.position_1,
                                   exercise_tracker.position_2)
          THEN 1 ELSE 0)

C1_Example == api.script = Len(Example) => exercise_tracker.reps = api.reps0 + 1

C1_RepCounting == [][C1_Step]_vars /\ []C1_Example

\* A repetition was just counted by an update call, and the example ran.
C1_Witness ==
    /\ api.op = "update"
    /\ api.ret = TRUE
    /\ api.script = Len(Example)
    /\ exercise_tracker.reps = api.reps0 + 1

\* C26: in every state of the tracker reps is not negative and rep_times
\* holds exactly reps timestamps.
C26_RepTimes ==
    /\ exercise_tracker.reps >= 0
    /\ Len(exercise_tracker.rep_times) = exercise_tracker.reps

\* Two repetitions have been counted, the second by the last update call.
C26_Witness ==
    /\ api.op = "update"
    /\ api.ret = TRUE
    /\ exercise_tracker.reps = 2
    /\ Len(exercise_tracker.rep_times) = 2

\* C4: an update call made while calibration is incomplete returns False and
\* leaves reps, rep_times and current_state as they were, whatever the row.
C4_NotReadyUpdate ==
    [][(/\ api'.op = "update"
        /\ (\/ ~exercise_tracker.is_calibrated
            \/ exercise_tracker.position_1 = None
            \/ exercise_tracker.position_2 = None))
       => (/\ api'.ret = FALSE
           /\ ~api'.raised
           /\ exercise_tracker'.reps = exercise_tracker.reps
           /\ exercise_tracker'.rep_times = exercise_tracker.rep_times
           /\ exercise_tracker'.current_state = exercise_tracker.current_state)]_vars

\* update was called on a tracker whose position_2 is set but position_1 is not.
C4_Witness ==
    /\ api.op = "update"
    /\ api.ret = FALSE
    /\ exercise_tracker.is_calibrated
    /\ exercise_tracker.position_1 = None
    /\ exercise_tracker.position_2 # None

\* ------------------------------------------- feature 5: virtual drawing
\* The number of entries of VirtualCanvas.colors.
colors_len == 6

\* VirtualCanvas.change_color, on the index into colors.
change_color(color_index) == (color_index + 1) % colors_len

\* VirtualCanvas.draw_point: the canvas fields afterwards and what was put on
\* the canvas, a line from last_point to point or a filled circle at point.
draw_point(d, point) ==
    IF point = None THEN [d |-> d, op |-> "none", a |-> None, b |-> None]
    ELSE [d |-> [d EXCEPT !.last_point = point],
          op |-> IF d.last_point # None /\ d.drawing THEN "line" ELSE "circle",
          a |-> IF d.last_point # None /\ d.drawing THEN d.last_point ELSE None,
          b |-> point]

\* The hands the drawing loop is shown: the index fingertip at one of two
\* points, with a fist, a lone index, index and middle, thumb with index and
\* middle, an open hand, or a lone middle finger.
DrawTips == {<<200, 200>>, <<400, 300>>}

DrawHands ==
    {GameHand(tip, up) :
        tip \in DrawTips,
        up \in {{}, {2}, {2, 3}, {1, 2, 3}, {1, 2, 3, 4, 5}, {3}}}

\* The open-hand test that changes the colour.
color_fires_held(finger_count, last_finger_count) == finger_count = 5
color_fires(finger_count, last_finger_count) ==
    finger_count = 5 /\ last_finger_count # 5

\* The body of `if landmarks_list:` for one frame showing the hand lm, and
\* nothing when no hand is detected (lm = None).
DrawMachine(d, lm) ==
    IF lm = None THEN [d |-> d, op |-> "none", a |-> None, b |-> None]
    ELSE
    LET finger_count == get_finger_count(lm)
        d1 == IF finger_count = 0
              THEN IF ~d.last_fist_state
                   THEN [d EXCEPT !.erase_mode = ~@, !.last_fist_state = TRUE]
                   ELSE d
              ELSE [d EXCEPT !.last_fist_state = FALSE]
        d2 == IF color_fires(finger_count, d1.last_finger_count)
              THEN [d1 EXCEPT !.color_index = change_color(@)]
              ELSE d1
        d3 == [d2 EXCEPT !.last_finger_count = finger_count]
    IN  IF is_finger_up(lm, "index") /\ finger_count <= 2
        THEN LET d4 == [d3 EXCEPT !.drawing = TRUE]
             IN  IF d4.erase_mode
                 THEN [d |-> d4, op |-> "erase", a |-> None, b |-> index_tip(lm)]
                 ELSE draw_point(d4, index_tip(lm))
        ELSE [d |-> [d3 EXCEPT !.drawing = FALSE, !.last_point = None],
              op |-> "none", a |-> None, b |-> None]

DrawInit ==
    /\ exercise_tracker = ExerciseTracker_init
    /\ api = ApiIdle
    /\ ex = ExIdle
    /\ ex_obs = ExObsIdle
    /\ gesture = GestureIdle
    /\ piano = PianoIdle
    /\ piano_obs = PianoObsIdle
    /\ sign = SignIdle
    /\ sign_obs = SignObsStart
    /\ game = GameIdle
    /\ game_obs = GameObsStart
    /\ draw = DrawStart
    /\ draw_obs = DrawObsStart
    /\ calc = CalcIdle
    /\ volume_control = VolumeIdle
    /\ volume_obs = VolumeObsStart

\* One pass of the while loop: a frame showing the hand lm (None when no hand
\* is detected), then the key polled at the end of the pass.
DrawFrame ==
    /\ draw.running
    /\ \E lm \in DrawHands \cup {None}, key \in {"none", "esc", "f"} :
         LET r == DrawMachine(draw, lm)
             active == /\ lm # None
                       /\ is_finger_up(lm, "index")
                       /\ get_finger_count(lm) <= 2
                       /\ ~r.d.erase_mode
         IN  /\ draw' = CASE key = "esc" -> [r.d EXCEPT !.running = FALSE]
                          [] key = "f" -> [r.d EXCEPT !.fullscreen = ~@]
                          [] OTHER -> r.d
             /\ draw_obs' = [op |-> r.op, a |-> r.a, b |-> r.b,
                             active |-> active,
                             tip |-> IF lm # None THEN index_tip(lm) ELSE None,
                             prev_active |-> draw_obs.active,
                             prev_tip |-> draw_obs.tip,
                             count |-> IF lm # None THEN get_finger_count(lm)
                                       ELSE -1,
                             hand_count |-> IF lm # None THEN get_finger_count(lm)
                                            ELSE draw_obs.hand_count,
                             prev_hand_count |-> draw_obs.hand_count]
    /\ UNCHANGED <<exercise_tracker, api, ex, ex_obs, gesture, piano, piano_obs,
                   sign, sign_obs, game, game_obs, calc,
                   volume_control, volume_obs>>

\* The camera stops delivering frames: get_frame returns None and the loop ends.
DrawCameraEnds ==
    /\ draw.running
    /\ draw' = [draw EXCEPT !.running = FALSE]
    /\ UNCHANGED <<exercise_tracker, api, ex, ex_obs, gesture, piano, piano_obs,
                   sign, sign_obs, game, game_obs, draw_obs, calc,
                   volume_control, volume_obs>>

DrawNext == DrawFrame \/ DrawCameraEnds

SpecDraw == DrawInit /\ [][DrawNext]_vars

\* C11: a line is put on the canvas only by an active draw frame that follows
\* an active draw frame, from that frame's fingertip to this one's; an active
\* draw frame that follows a frame that was not one (index finger down, more
\* than two fingers up, erase mode, or no hand) starts a new stroke with a
\* point connected to nothing.
C11_StrokeBreaks ==
    /\ draw_obs.op = "line"
         => /\ draw_obs.active /\ draw_obs.prev_active
            /\ draw_obs.a = draw_obs.prev_tip /\ draw_obs.b = draw_obs.tip
    /\ (draw_obs.active /\ ~draw_obs.prev_active) => draw_obs.op = "circle"

FingerOffsets == {-50, -41, -40, -31, -30, -1, 0, 1, 30, 31, 40, 41, 50}

\* The hand whose landmarks are all at GesturePalm but the tip of finger i
\* (1 thumb .. 5 pinky), which is off by <<dx, dy>>.
FingerHand(i, dx, dy) ==
    [k \in 0..20 |->
        IF k = 4 * i THEN <<GesturePalm[1] + dx, GesturePalm[2] + dy>>
        ELSE GesturePalm]

\* One call of each predicate on the same hand and finger.
FingerCall ==
    /\ \E i \in 1..5, dx \in FingerOffsets, dy \in FingerOffsets :
         LET lm == FingerHand(i, dx, dy)
         IN  calc' = [fn |-> "finger",
                      lm |-> lm,
                      finger_name |-> FingerNames[i],
                      up |-> is_finger_up(lm, FingerNames[i]),
                      extended |-> check_finger_extended(lm, FingerNames[i])]
    /\ UNCHANGED <<exercise_tracker, api, ex, ex_obs, gesture, piano, piano_obs,
                   sign, sign_obs, game, game_obs, draw, draw_obs,
                   volume_control, volume_obs>>

\* No feature is running: only pure functions are called.
CalcInit ==
    /\ exercise_tracker = ExerciseTracker_init
    /\ api = ApiIdle
    /\ ex = ExIdle
    /\ ex_obs = ExObsIdle
    /\ gesture = GestureIdle
    /\ piano = PianoIdle
    /\ piano_obs = PianoObsIdle
    /\ sign = SignIdle
    /\ sign_obs = SignObsStart
    /\ game = GameIdle
    /\ game_obs = GameObsStart
    /\ draw = DrawIdle
    /\ draw_obs = DrawObsStart
    /\ calc = CalcIdle
    /\ volume_control = VolumeIdle
    /\ volume_obs = VolumeObsStart

SpecFinger == CalcInit /\ [][FingerCall]_vars

\* The displacement a predicate's answer is claimed to depend on: for the
\* thumb |tipX - baseX|, for another finger baseY - tipY.
C12_Displacement(c) ==
    LET finger_points == fingers(c.lm, c.finger_name)
    IN  IF c.finger_name = "thumb"
        THEN Abs(finger_points[3][1] - finger_points[1][1])
        ELSE finger_points[1][2] - finger_points[4][2]

\* C12: each predicate answers "extended" iff the displacement (|tipX - baseX|
\* for the thumb, whatever its sign; baseY - tipY for the other fingers)
\* exceeds a fixed positive threshold: of two calls for the same finger, the
\* one with the displacement at least as large is extended if the other is,
\* and a displacement of 0 or less is never extended.
C12_FingerPredicates ==
    [][(calc.fn = "finger" /\ calc'.fn = "finger") =>
         /\ C12_Displacement(calc') <= 0 => (~calc'.up /\ ~calc'.extended)
         /\ (/\ calc.finger_name = calc'.finger_name
             /\ C12_Displacement(calc) <= C12_Displacement(calc'))
              => /\ calc.up => calc'.up
                 /\ calc.extended => calc'.extended]_vars

\* ------------------------------------------------------- get_distance
\* Both implementations return numpy's Euclidean norm of point1 - point2.  The
\* norm is kept as its square, an integer: the square root is one-to-one and
\* maps 0 to 0, so equal squares are equal norms and a zero square a zero norm.
\* HandTracker.get_distance: np.array(None) is an object array holding None,
\* and subtracting with it raises TypeError.
hand_get_distance(point1, point2) ==
    IF point1 = None \/ point2 = None
    THEN [raised |-> TRUE, norm2 |-> 0]
    ELSE [raised |-> FALSE, norm2 |-> get_distance2(point1, point2)]

\* PoseTracker.get_distance
pose_get_distance(point1, point2) ==
    IF point1 = None \/ point2 = None
    THEN [raised |-> FALSE, norm2 |-> 0]
    ELSE [raised |-> FALSE, norm2 |-> get_distance2(point1, point2)]

\* The points handed to get_distance, and None for an absent one.
DistancePoints ==
    {<<x, y>> : x \in {0, 3, 640}, y \in {0, 4, 480}} \cup {<<-5, 12>>, None}

\* One call of each implementation on the same two arguments.
DistanceCall ==
    /\ \E point1 \in DistancePoints, point2 \in DistancePoints :
         calc' = [fn |-> "get_distance",
                  point1 |-> point1,
                  point2 |-> point2,
                  hand |-> hand_get_distance(point1, point2),
                  pose |-> pose_get_distance(point1, point2)]
    /\ UNCHANGED <<exercise_tracker, api, ex, ex_obs, gesture, piano, piano_obs,
                   sign, sign_obs, game, game_obs, draw, draw_obs,
                   volume_control, volume_obs>>

SpecDistance == CalcInit /\ [][DistanceCall]_vars

\* C13: for both implementations, get_distance(p, p) = 0; a call with an
\* absent argument returns 0 and does not raise; and a call with the
\* arguments of the call before it swapped returns what that call returned.
C13_Distance ==
    /\ [](calc.fn = "get_distance" =>
            /\ (calc.point1 = calc.point2 \/ calc.point1 = None \/ calc.point2 = None)
                 => /\ ~calc.hand.raised /\ calc.hand.norm2 = 0
                    /\ ~calc.pose.raised /\ calc.pose.norm2 = 0)
    /\ [][(/\ calc.fn = "get_distance" /\ calc'.fn = "get_distance"
           /\ calc'.point1 = calc.point2 /\ calc'.point2 = calc.point1)
            => (calc'.hand = calc.hand /\ calc'.pose = calc.pose)]_vars

\* ------------------------------------------- angles between two vectors
\* Both angle computations evaluate, in floating point,
\*     degrees(arccos(dot(v1, v2) / (norm(v1) * norm(v2) + 1e-6))).
\* The model covers the vectors that meet at a multiple of 45 degrees, and
\* zero vectors.  The 1e-6 in the denominator pulls a non-zero cosine a hair
\* towards 0, so the result is a float a hair above 0 or 45, a hair below 135
\* or 180, or exactly 90; a zero vector makes the cosine 0 / 1e-6 = 0 and the
\* result exactly 90.  Such a float is the pair <<deg, side>>: the whole
\* number of degrees it is next to, and -1, 0 or 1 as it lies a hair below,
\* on, or a hair above it.
Dot(v1, v2) == v1[1] * v2[1] + v1[2] * v2[2]

Minus(p, q) == <<p[1] - q[1], p[2] - q[2]>>

vector_angle(v1, v2) ==
    LET dot == Dot(v1, v2)
        n1 == Dot(v1, v1)
        n2 == Dot(v2, v2)
    IN  CASE n1 = 0 \/ n2 = 0 -> <<90, 0>>
          [] n1 # 0 /\ n2 # 0 /\ dot = 0 -> <<90, 0>>
          [] n1 # 0 /\ n2 # 0 /\ dot > 0 /\ dot * dot = n1 * n2 -> <<0, 1>>
          [] n1 # 0 /\ n2 # 0 /\ dot < 0 /\ dot * dot = n1 * n2 -> <<180, -1>>
          [] n1 # 0 /\ n2 # 0 /\ dot > 0 /\ 2 * dot * dot = n1 * n2 -> <<45, 1>>
          [] n1 # 0 /\ n2 # 0 /\ dot < 0 /\ 2 * dot * dot = n1 * n2 -> <<135, -1>>

\* Python's int() of such a float: truncation towards zero.
int_of(angle) == IF angle[2] = -1 THEN angle[1] - 1 ELSE angle[1]

\* v turned by k eighths of a full turn (and stretched by sqrt(2) each time).
RECURSIVE Turned(_, _)
Turned(v, k) == IF k = 0 THEN v ELSE Turned(<<v[1] - v[2], v[1] + v[2]>>, k - 1)

\* ------------------------------------- feature 8: PoseAnalyzer.analyze_posture
\* The angle at the second joint of each of the four fingers, in the order
\* index, middle, ring, pinky.  numpy raises nothing here, so the bare except
\* never runs and all four angles are appended.
finger_angles(lm) ==
    [i \in 1..4 |->
        LET finger_points == fingers(lm, FingerNames[i + 1])
            v1 == Minus(finger_points[1], finger_points[2])
            v2 == Minus(finger_points[3], finger_points[2])
        IN  vector_angle(v1, v2)]

\* The points taken off for the fingers: avg_angle < 100 or avg_angle > 170,
\* on the sum of the four angles.  The sum is a multiple of 45 give or take a
\* hair, never 400 or 680, so the whole degrees decide.
finger_deduction_ten(angles) ==
    LET total == angles[1][1] + angles[2][1] + angles[3][1] + angles[4][1]
    IN  IF total < 4 * 100 THEN 10
        ELSE IF total > 4 * 170 THEN 10
        ELSE 0
finger_deduction(angles) ==
    LET total == angles[1][1] + angles[2][1] + angles[3][1] + angles[4][1]
    IN  IF total < 4 * 100 THEN 20
        ELSE IF total > 4 * 170 THEN 20
        ELSE 0

\* abs(degrees(arctan2(dy, dx))) > 45 for the step from the middle finger's
\* first joint to its second; arctan2(0, 0) is 0 and arctan2(d, d) is 45.0.
wrist_deduction_signed(lm) ==
    LET dy == lm[10][2] - lm[9][2]
        dx == lm[10][1] - lm[9][1]
    IN  IF dy > 0 /\ dy > dx THEN 15 ELSE 0
wrist_deduction(lm) ==
    LET dy == lm[10][2] - lm[9][2]
        dx == lm[10][1] - lm[9][1]
    IN  IF (dx = 0 /\ dy = 0) \/ (dx > 0 /\ Abs(dy) <= dx) THEN 0 ELSE 15

\* thumb_distance > 100, on the squares.
thumb_deduction_hundred(lm) ==
    IF get_distance2(thumb_tip(lm), lm[5]) > 100 * 100 THEN 100 ELSE 0
thumb_deduction(lm) ==
    IF get_distance2(thumb_tip(lm), lm[5]) > 100 * 100 THEN 10 ELSE 0

\* analyze_posture: the returned score, status and feedback, and what is
\* added to good_posture_count and bad_posture_count.
analyze_posture(lm) ==
    LET angles == finger_angles(lm)
        score == 100 - finger_deduction(angles) - wrist_deduction(lm)
                     - thumb_deduction(lm)
        total == angles[1][1] + angles[2][1] + angles[3][1] + angles[4][1]
        feedback ==
            (IF total < 4 * 100 THEN <<"Fingers too curled - relax your hand">>
             ELSE IF total > 4 * 170 THEN <<"Fingers too extended - relax your hand">>
             ELSE <<"Good finger position!">>)
            \o (IF wrist_deduction(lm) # 0
                THEN <<"Wrist bent too much - keep it straight">> ELSE <<>>)
            \o (IF thumb_deduction(lm) # 0
                THEN <<"Thumb too far - relax position">> ELSE <<>>)
    IN  [score |-> score,
         status |-> IF score >= 80 THEN "GOOD POSTURE"
                    ELSE IF score >= 60 THEN "OK POSTURE"
                    ELSE "POOR POSTURE",
         feedback |-> feedback,
         finger_angles |-> angles,
         good_posture_count |-> IF score >= 80 THEN 1 ELSE 0,
         bad_posture_count |-> IF score < 60 THEN 1 ELSE 0]

\* The hands handed to analyze_posture.  The middle finger's first joint is at
\* GesturePalm and its second joint w away; its third joint is off the second
\* at km eighths of a turn from the first.  The index finger (ki) and the ring
\* and pinky fingers (kr) bend likewise at a second joint ten pixels above the
\* first, ki = -1 putting the third joint on the second.  The thumb tip is t
\* away from the index finger's first joint.
PostureSteps ==
    {<<0, 0>>, <<10, 0>>, <<10, 9>>, <<10, 10>>, <<10, 11>>, <<0, 10>>,
     <<-10, 0>>, <<10, -10>>, <<10, -11>>, <<-10, 1>>}

PostureThumbs == {<<0, 0>>, <<100, 0>>, <<60, 80>>, <<101, 0>>, <<80, 61>>}

PostureHand(w, km, ki, kr, t) ==
    LET bend(k) == IF k = -1 THEN <<0, 0>> ELSE Turned(<<0, 10>>, k)
        first(i) == <<GesturePalm[1] + 40 * (i - 3), GesturePalm[2]>>
        second(i) == IF i = 3 THEN <<first(i)[1] + w[1], first(i)[2] + w[2]>>
                     ELSE <<first(i)[1], first(i)[2] - 10>>
        step(i) == CASE i = 2 -> bend(ki)
                     [] i = 3 -> Turned(<<0 - w[1], 0 - w[2]>>, km)
                     [] OTHER -> bend(kr)
        third(i) == <<second(i)[1] + step(i)[1], second(i)[2] + step(i)[2]>>
    IN  [k \in 0..20 |->
            CASE k = 4 -> <<first(2)[1] + t[1], first(2)[2] + t[2]>>
              [] k \in {5, 9, 13, 17} -> first((k + 3) \div 4)
              [] k \in {6, 10, 14, 18} -> second((k + 2) \div 4)
              [] k \in {7, 11, 15, 19} -> third((k + 1) \div 4)
              [] OTHER -> GesturePalm]

PostureHands ==
    {PostureHand(w, km, ki, kr, t) :
        w \in PostureSteps, km \in 0..4, ki \in -1..4, kr \in 2..4,
        t \in PostureThumbs}

\* One call of analyze_posture.
AnalyzePosture ==
    /\ calc.fn = "none"
    /\ \E lm \in PostureHands :
         calc' = [fn |-> "analyze_posture", lm |-> lm, ret |-> analyze_posture(lm)]
    /\ UNCHANGED <<exercise_tracker, api, ex, ex_obs, gesture, piano, piano_obs,
                   sign, sign_obs, game, game_obs, draw, draw_obs,
                   volume_control, volume_obs>>

\* ------------------------------------------- main.py: the displayed angle
\* The Euclidean norm of a vector whose norm is a whole number.
Norm(v) == CHOOSE r \in 0..1000 : r * r = Dot(v, v)

\* The angle the launcher displays for the hand lm: int() of the angle at the
\* palm between the thumb tip and the index tip, computed only in the
\* open-hand branch (the five fingertips are more than 70 pixels from the
\* palm on average); "none" in the other branches.  The division is by a
\* positive number and the cosine lies inside [-1, 1], so the except clause
\* never runs.
launcher_angle(lm) ==
    LET tips == <<lm[4], lm[8], lm[12], lm[16], lm[20]>>
        total == Norm(Minus(tips[1], palm(lm))) + Norm(Minus(tips[2], palm(lm)))
                 + Norm(Minus(tips[3], palm(lm))) + Norm(Minus(tips[4], palm(lm)))
                 + Norm(Minus(tips[5], palm(lm)))
        v1 == Minus(thumb_tip(lm), palm(lm))
        v2 == Minus(index_tip(lm), palm(lm))
    IN  IF total > 5 * 70
        THEN [shown |-> TRUE, angle |-> int_of(vector_angle(v1, v2))]
        ELSE [shown |-> FALSE, angle |-> 0]

\* The hands shown to the launcher: the thumb tip and the index tip on the
\* palm point or 100 pixels right of, above, left of or below it; the other
\* three fingertips 150 or 40 pixels above it.
LauncherOffsets == {<<0, 0>>, <<100, 0>>, <<0, -100>>, <<-100, 0>>, <<0, 100>>}

LauncherHands ==
    {WithTips([i \in 0..20 |-> GesturePalm],
              <<<<GesturePalm[1] + a[1], GesturePalm[2] + a[2]>>,
                <<GesturePalm[1] + b[1], GesturePalm[2] + b[2]>>,
                <<GesturePalm[1], GesturePalm[2] - h>>,
                <<GesturePalm[1], GesturePalm[2] - h>>,
                <<GesturePalm[1], GesturePalm[2] - h>>>>)
       : a \in LauncherOffsets, b \in LauncherOffsets, h \in {150, 40}}

\* One frame of the launcher showing a hand.
LauncherAngle ==
    /\ calc.fn = "none"
    /\ \E lm \in LauncherHands :
         calc' = [fn |-> "launcher_angle", lm |-> lm, ret |-> launcher_angle(lm)]
    /\ UNCHANGED <<exercise_tracker, api, ex, ex_obs, gesture, piano, piano_obs,
                   sign, sign_obs, game, game_obs, draw, draw_obs,
                   volume_control, volume_obs>>

PostureNext == AnalyzePosture \/ LauncherAngle

SpecPosture == CalcInit /\ [][PostureNext]_vars

\* C14: score = 100 - 20 if the average finger joint angle is below 100 or
\* above 170, - 15 if the wrist angle is more than 45 degrees either way,
\* - 10 if the thumb tip is more than 100 pixels from the index finger's base,
\* each applied whatever the others are; the status is GOOD POSTURE iff
\* score >= 80, OK POSTURE iff 60 <= score < 80, POOR POSTURE iff score < 60.
C14_Bent(lm) ==
    LET dy == lm[10][2] - lm[9][2]
        dx == lm[10][1] - lm[9][1]
    IN  ~(dx >= 0 /\ dy * dy <= dx * dx)

C14_ThumbFar(lm) ==
    (lm[4][1] - lm[5][1]) * (lm[4][1] - lm[5][1])
    + (lm[4][2] - lm[5][2]) * (lm[4][2] - lm[5][2]) > 10000

C14_FingersOff(angles) ==
    LET total == angles[1][1] + angles[2][1] + angles[3][1] + angles[4][1]
    IN  total < 400 \/ total > 680

C15_CanGoNegative ==
    calc.fn = "none" => ENABLED (AnalyzePosture /\ calc'.ret.score < 0)

\* C15 as amended: no lower bound is enforced, yet the three deductions add up
\* to 45 at most, so the score analyze_posture returns is never below 55, and
\* never negative.
C15_ScoreFloor ==
    calc.fn = "analyze_posture" => (calc.ret.score >= 55 /\ calc.ret.score >= 0)

\* All three deductions at once: the lowest score, 55.
C15_Witness ==
    /\ calc.fn = "analyze_posture"
    /\ C14_FingersOff(calc.ret.finger_angles)
    /\ C14_Bent(calc.lm)
    /\ C14_ThumbFar(calc.lm)
    /\ calc.ret.score = 55

\* C29: analyze_posture reports POOR POSTURE, and adds one to
\* bad_posture_count, exactly when the finger, wrist and thumb deductions all
\* apply, and the score is then 55; with any other combination the score is
\* at least 65; and a call that reports OK POSTURE adds to neither
\* good_posture_count nor bad_posture_count.
C29_PoorPosture ==
    calc.fn = "analyze_posture" =>
        LET r == calc.ret
            all_three == /\ C14_FingersOff(r.finger_angles)
                         /\ C14_Bent(calc.lm)
                         /\ C14_ThumbFar(calc.lm)
        IN  /\ r.status = "POOR POSTURE" <=> all_three
            /\ r.bad_posture_count = 1 <=> all_three
            /\ r.bad_posture_count \in {0, 1}
            /\ all_three => r.score = 55
            /\ ~all_three => r.score >= 65
            /\ r.status = "OK POSTURE"
                 => (r.good_posture_count = 0 /\ r.bad_posture_count = 0)

\* The three deductions on one hand: POOR POSTURE, counted as bad posture.
C29_Witness ==
    /\ calc.fn = "analyze_posture"
    /\ C14_FingersOff(calc.ret.finger_angles)
    /\ C14_Bent(calc.lm)
    /\ C14_ThumbFar(calc.lm)
    /\ calc.ret.status = "POOR POSTURE"
    /\ calc.ret.bad_posture_count = 1
    /\ calc.ret.good_posture_count = 0

\* C16: an angle computed from a zero-length vector is 0: the joint angle of
\* a finger whose second joint coincides with its first or its third, and the
\* launcher's angle when the thumb tip or the index tip is on the palm point.
C16_ZeroVectorAngle ==
    /\ calc.fn = "analyze_posture" =>
         \A i \in 1..4 :
            LET finger_points == fingers(calc.lm, FingerNames[i + 1])
            IN  (finger_points[1] = finger_points[2] \/ finger_points[3] = finger_points[2])
                  => calc.ret.finger_angles[i] = <<0, 0>>
    /\ (calc.fn = "launcher_angle" /\ calc.ret.shown
        /\ (thumb_tip(calc.lm) = palm(calc.lm) \/ index_tip(calc.lm) = palm(calc.lm)))
         => calc.ret.angle = 0

\* ------------------------------------- feature 1: detect_asl_letter alone
\* The hands handed to detect_asl_letter.  The bases of index, middle, ring
\* and pinky are 20 pixels apart on the row of the palm point (the middle
\* finger's base).  The tip of each is 50 pixels above its base (up), or
\* else down below its base (10: folded; -10: ten pixels above the base,
\* half bent); the index tip may sit 100 pixels to the left (pointing), the
\* middle tip 0, 10 or 30 pixels to the right, which puts it 20, 30 or 50
\* pixels from an upright index tip.  The second joints are 20 pixels above
\* the bases or 5 below them.  The thumb tip is t away from the index tip and
\* the thumb's base 41 pixels left of the thumb tip (out) or on its column.
AslThumbs == {<<0, 0>>, <<0, 50>>, <<0, 200>>, <<25, 0>>}

AslHand(up, down, ix, mx, joint, t, out) ==
    LET base(i) == <<GesturePalm[1] + 20 * (i - 3), GesturePalm[2]>>
        tip(i) == <<base(i)[1] + (CASE i = 2 -> ix [] i = 3 -> mx [] OTHER -> 0),
                    base(i)[2] + (IF i \in up THEN -50 ELSE down)>>
        thumb == <<tip(2)[1] + t[1], tip(2)[2] + t[2]>>
    IN  [k \in 0..20 |->
            CASE k = 4 -> thumb
              [] k = 2 -> <<thumb[1] - (IF out THEN 41 ELSE 0), thumb[2]>>
              [] k \in {5, 9, 13, 17} -> base((k + 3) \div 4)
              [] k \in {6, 10, 14, 18} ->
                   <<base((k + 2) \div 4)[1], base((k + 2) \div 4)[2] + joint>>
              [] k \in {8, 12, 16, 20} -> tip(k \div 4)
              [] OTHER -> GesturePalm]

AslHands ==
    {AslHand(up, down, ix, mx, joint, t, out) :
        up \in SUBSET (2..5), down \in {10, -10}, ix \in {0, -100}, mx \in {0, 10, 30},
        joint \in {-20, 5}, t \in AslThumbs, out \in BOOLEAN}

\* One call of detect_asl_letter: the hand, the five answers of
\* check_finger_extended, and the label returned.
DetectAslLetter ==
    /\ calc.fn = "none"
    /\ \E lm \in AslHands :
         calc' = [fn |-> "detect_asl_letter",
                  lm |-> lm,
                  fingers |-> [i \in 1..5 |-> check_finger_extended(lm, FingerNames[i])],
                  ret |-> detect_asl_letter(lm)]
    /\ UNCHANGED <<exercise_tracker, api, ex, ex_obs, gesture, piano, piano_obs,
                   sign, sign_obs, game, game_obs, draw, draw_obs,
                   volume_control, volume_obs>>

SpecAsl == CalcInit /\ [][DetectAslLetter]_vars

Letters ==
    {"A", "B", "C", "D", "E", "F", "G", "H", "I", "J", "K", "L", "M",
     "N", "O", "P", "Q", "R", "S", "T", "U", "V", "W", "X", "Y", "Z"}

\* How many of index, middle, ring and pinky the call found extended.
C18_Count(c) == Cardinality({i \in 2..5 : c.fingers[i]})

\* C18: every letter from A to Z is returned for some hand: for each letter,
\* a call of detect_asl_letter returning it can be made.
C18_EveryLetter ==
    calc.fn = "none" =>
        \A letter \in Letters : ENABLED (DetectAslLetter /\ calc'.ret = letter)

\* C19: a hand with pinky and thumb extended and index, middle and ring not
\* extended is labelled "Y".
C19_PinkyThumbIsY ==
    (/\ calc.fn = "detect_asl_letter"
     /\ calc.fingers[1] /\ calc.fingers[5]
     /\ ~calc.fingers[2] /\ ~calc.fingers[3] /\ ~calc.fingers[4])
      => calc.ret = "Y"

\* C20: a hand with the index extended and no other of the four is labelled
\* "G"; a hand with the pinky extended and no other of the four is labelled
\* "I"; and neither "Q" nor "J" is ever returned.
C20_QandJCollapse ==
    calc.fn = "detect_asl_letter" =>
        /\ (calc.fingers[2] /\ C18_Count(calc) = 1) => calc.ret = "G"
        /\ (calc.fingers[5] /\ C18_Count(calc) = 1) => calc.ret = "I"
        /\ calc.ret \notin {"Q", "J"}

min_dist == 20
max_dist == 100

\* int(100 - np.clip((pinch_dist - min_dist) / (max_dist - min_dist) * 100,
\* 0, 100)) for the pinch distance whose square is d2.  Between the two
\* limits it is the integer part of 125 - 1.25 * pinch_dist, the largest v
\* with 5 * pinch_dist <= 4 * (125 - v).  In double arithmetic the one
\* distance where the rounded quotient decides is 64.0:
\* (64.0 - 20) / 80 * 100 is 55.00000000000001, and the volume is 44, not 45.
new_volume(d2) ==
    IF d2 <= min_dist * min_dist THEN 100
    ELSE IF d2 >= max_dist * max_dist THEN 0
    ELSE IF d2 = 64 * 64 THEN 44
    ELSE CHOOSE v \in 0..100 :
            /\ 25 * d2 <= 16 * (125 - v) * (125 - v)
            /\ 25 * d2 > 16 * (124 - v) * (124 - v)

\* VolumeControl.update_volume without the early return of the first call.
update_volume_no_skip(self, d2) ==
    [self EXCEPT !.volume = new_volume(d2), !.last_pinch_dist = Num(d2)]
\* VolumeControl.update_volume(pinch_dist), pinch_dist given by its square.
update_volume(self, d2) ==
    IF self.last_pinch_dist = None
    THEN [self EXCEPT !.last_pinch_dist = Num(d2)]
    ELSE [self EXCEPT !.volume = new_volume(d2), !.last_pinch_dist = Num(d2)]

\* VolumeControl.reset
volume_reset(self) ==
    [self EXCEPT !.last_pinch_dist = None, !.is_controlling = FALSE]

\* The hands the volume loop is shown: the thumb tip at (100, 100), the index
\* fingertip 10, 21, 50, 64, 79, just under 80, 80 or 100 pixels from it, with
\* a fist, thumb and index up, or thumb, index and middle up.
VolumeHands ==
    {GameHand(tip, up) :
        tip \in {<<100, 110>>, <<100, 121>>, <<130, 140>>, <<100, 164>>,
                 <<100, 179>>, <<163, 149>>, <<100, 180>>, <<100, 200>>},
        up \in {{}, {1, 2}, {1, 2, 3}}}

\* The test of "Control volume when pinching": pinch_dist < 80 and
\* finger_count <= 2.
pinching(lm) ==
    /\ get_distance2(thumb_tip(lm), index_tip(lm)) < 80 * 80
    /\ get_finger_count(lm) <= 2

\* The body of `if landmarks_list:` for one frame showing the hand lm, and
\* nothing when no hand is detected (lm = None).
VolumeMachine(v, lm) ==
    IF lm = None THEN v
    ELSE IF pinching(lm)
    THEN update_volume([v EXCEPT !.is_controlling = TRUE],
                       get_distance2(thumb_tip(lm), index_tip(lm)))
    ELSE volume_reset(v)

VolumeInit ==
    /\ exercise_tracker = ExerciseTracker_init
    /\ api = ApiIdle
    /\ ex = ExIdle
    /\ ex_obs = ExObsIdle
    /\ gesture = GestureIdle
    /\ piano = PianoIdle
    /\ piano_obs = PianoObsIdle
    /\ sign = SignIdle
    /\ sign_obs = SignObsStart
    /\ game = GameIdle
    /\ game_obs = GameObsStart
    /\ draw = DrawIdle
    /\ draw_obs = DrawObsStart
    /\ calc = CalcIdle
    /\ volume_control = VolumeStart
    /\ volume_obs = VolumeObsStart

\* One pass of the while loop: a frame showing the hand lm (None when no hand
\* is detected), then the key polled at the end of the pass.
VolumeFrame ==
    /\ volume_control.running
    /\ \E lm \in VolumeHands \cup {None}, key \in {"none", "esc", "f"} :
         LET v == VolumeMachine(volume_control, lm)
             called == lm # None /\ pinching(lm)
         IN  /\ volume_control' =
                  CASE key = "esc" -> [v EXCEPT !.running = FALSE]
                    [] key = "f" -> [v EXCEPT !.fullscreen = ~@]
                    [] OTHER -> v
             /\ volume_obs' = [called |-> called,
                               prev_called |-> volume_obs.called,
                               prev_volume |-> volume_control.volume,
                               hand |-> IF lm = None THEN volume_obs.hand
                                        ELSE IF called THEN "pinch" ELSE "other",
                               prev_hand |-> volume_obs.hand]
    /\ UNCHANGED <<exercise_tracker, api, ex, ex_obs, gesture, piano, piano_obs,
                   sign, sign_obs, game, game_obs, draw, draw_obs, calc>>

\* The camera stops delivering frames: get_frame returns None and the loop ends.
VolumeCameraEnds ==
    /\ volume_control.running
    /\ volume_control' = [volume_control EXCEPT !.running = FALSE]
    /\ UNCHANGED <<exercise_tracker, api, ex, ex_obs, gesture, piano, piano_obs,
                   sign, sign_obs, game, game_obs, draw, draw_obs, calc,
                   volume_obs>>

SpecVolume == VolumeInit /\ [][VolumeFrame \/ VolumeCameraEnds]_vars

\* C28 as stated: volume is an integer within 25..100 in every state, and a
\* frame that calls update_volume after a frame that did not (the first frame
\* of a run of pinch frames) leaves volume as it was.
C28_FirstPinchFrame ==
    /\ volume_control.volume \in 25..100
    /\ (volume_obs.called /\ ~volume_obs.prev_called)
         => volume_control.volume = volume_obs.prev_volume

\* C28: volume is an integer within 25..100 in every state, and a frame that
\* calls update_volume leaves volume as it was when the latest earlier frame
\* that showed a hand was not a pinch frame, or when no earlier frame showed a
\* hand; frames that show no hand do not end a pinch episode.
C28_Volume ==
    /\ volume_control.volume \in 25..100
    /\ (volume_obs.called /\ volume_obs.prev_hand # "pinch")
         => volume_control.volume = volume_obs.prev_volume

\* A pinch episode begins after an open hand, at a distance that would set
\* another volume than the one an earlier episode left.
C28_Witness ==
    /\ volume_obs.called
    /\ volume_obs.prev_hand = "other"
    /\ volume_control.volume = 25
    /\ new_volume(volume_control.last_pinch_dist[1]) = 44
====
